---- MODULE Spec2Model ----
(***************************************************************************)
(* Partition-aware migration synthesis of back/app: the PartitionConfig    *)
(* validation and PartitionSQLGenerator of app/utils/partition_manager.py  *)
(* and the autogenerate hooks of app/alembic/env.py.                       *)
(*                                                                         *)
(* Strings the code takes apart (names, file names, naming patterns) are   *)
(* sequences of one-character strings; SQL statements are records of the   *)
(* fields the f-strings interpolate.                                       *)
(***************************************************************************)
EXTENDS Integers, Sequences, FiniteSets, TLC

VARIABLES
    partition_config,   \* PartitionConfig(...) call: its arguments, then its outcome
    creation_sql,       \* outcome of generate_creation_sql(partition_config)
    drop_sql,           \* outcome of generate_drop_sql(partition_config)
    candidate,          \* the object descriptor the diff engine presents
    included,           \* what include_object answered for it
    enum_definitions,   \* the model's enums: a dict, in insertion order
    database,           \* how context.get_bind() behaves and what pg_enum holds
    enum_ops,           \* what generate_enum_migration_ops returned
    versions,           \* script_location and its versions directory
    target_metadata,    \* Base.metadata: the tables of the model
    directives,         \* the diff engine's directives of the current run
    manager_config,     \* the PartitionManagerConfig of a PartitionManager
    analysis,           \* outcome of analyze_metadata(target_metadata)
    migration_sql,      \* outcome of generate_migration_sql(target_metadata)
    partition_info,     \* outcome of get_table_partition_info(table, target_metadata)
    invocations         \* generation runs started side by side on one directory

partVars == <<partition_config, creation_sql, drop_sql>>

filterVars == <<candidate, included>>

enumVars == <<enum_definitions, enum_ops>>

revVars == <<versions, target_metadata, directives>>

managerVars == <<manager_config, analysis, migration_sql, partition_info>>

vars == <<partVars, filterVars, enumVars, database, revVars, managerVars, invocations>>

\* what each component's steps leave alone
notPart == <<filterVars, enumVars, database, revVars, managerVars, invocations>>

notFilter == <<partVars, enumVars, database, revVars, managerVars, invocations>>

notEnum == <<partVars, filterVars, revVars, managerVars, invocations>>

notRev == <<partVars, filterVars, enumVars, managerVars, invocations>>

notManager == <<partVars, filterVars, enumVars, database, revVars, invocations>>

notInvocations == <<partVars, filterVars, enumVars, managerVars, directives>>

(***************************************************************************)
(* Characters and strings                                                  *)
(***************************************************************************)
LowerCase ==
    {"a", "b", "c", "d", "e", "f", "g", "h", "i", "j", "k", "l", "m",
     "n", "o", "p", "q", "r", "s", "t", "u", "v", "w", "x", "y", "z"}

UpperCase ==
    {"A", "B", "C", "D", "E", "F", "G", "H", "I", "J", "K", "L", "M",
     "N", "O", "P", "Q", "R", "S", "T", "U", "V", "W", "X", "Y", "Z"}

DigitChars == <<"0", "1", "2", "3", "4", "5", "6", "7", "8", "9">>

Digit == {DigitChars[i] : i \in 1..Len(DigitChars)}

\* str(n) of a non-negative int: its decimal digits
RECURSIVE Str(_)
Str(n) ==
    IF n < 10 THEN <<DigitChars[n + 1]>>
    ELSE Str(n \div 10) \o <<DigitChars[(n % 10) + 1]>>

\* int(s) of a string of decimal digits
RECURSIVE ParseInt(_)
ParseInt(s) ==
    IF Len(s) = 0 THEN 0
    ELSE 10 * ParseInt(SubSeq(s, 1, Len(s) - 1))
         + (CHOOSE d \in 0..9 : DigitChars[d + 1] = s[Len(s)])

\* Optional values: None, or a present (possibly empty) list
None == [some |-> FALSE, val |-> <<>>]

Some(v) == [some |-> TRUE, val |-> v]

\* Python truthiness of an Optional list: None and [] are falsy
Truthy(opt) == opt.some /\ Len(opt.val) > 0

\* all sequences over S of length lo..hi
SeqsOf(S, lo, hi) == UNION {[1..n -> S] : n \in lo..hi}

(***************************************************************************)
(* PartitionConfig                                                         *)
(***************************************************************************)
HASH == "HASH"

RANGE == "RANGE"

LIST == "LIST"

PartitionStrategy == {HASH, RANGE, LIST}

DefaultPartitionCount == 4

\* "{table}_p{number}"
DefaultNamingPattern == <<"{table}", "_", "p", "{number}">>

\* re.match(r"^[a-zA-Z_][a-zA-Z0-9_]*$", s): '$' matches at the end of the
\* string and also just before a newline that ends the string
DollarAt(s, k) == k = Len(s) + 1 \/ (k = Len(s) /\ s[k] = "\n")

IdentHead(c) == c \in LowerCase \cup UpperCase \cup {"_"}

IdentTail(c) == c \in LowerCase \cup UpperCase \cup Digit \cup {"_"}

ReMatchIdentifier(s) ==
    \E k \in 2..(Len(s) + 1) :
        /\ IdentHead(s[1])
        /\ \A j \in 2..(k - 1) : IdentTail(s[j])
        /\ DollarAt(s, k)

\* PartitionConfig.validate: the first failing rule raises
Validate(a) ==
    IF a.partition_count < 1 THEN "PartitionConfigError"
    ELSE IF a.strategy = RANGE /\ ~Truthy(a.range_bounds) THEN "PartitionConfigError"
    ELSE IF a.strategy = LIST /\ ~Truthy(a.custom_values) THEN "PartitionConfigError"
    ELSE IF ~ReMatchIdentifier(a.table_name) THEN "PartitionConfigError"
    ELSE IF ~ReMatchIdentifier(a.column) THEN "PartitionConfigError"
    ELSE "ok"

\* PartitionConfig(...): __post_init__ runs validate; a raise leaves no object
PartitionConfig(a) == [state |-> Validate(a), cfg |-> a]

(***************************************************************************)
(* PartitionSQLGenerator                                                   *)
(***************************************************************************)
\* str.format(table=..., number=...) on a naming pattern: a replacement field
\* naming neither keyword raises KeyError
RECURSIVE Format(_, _, _)
Format(pattern, table, number) ==
    IF Len(pattern) = 0 THEN [exc |-> "none", s |-> <<>>]
    ELSE LET rest == Format(Tail(pattern), table, number)
             tok == Head(pattern)
         IN  IF rest.exc # "none" THEN rest
             ELSE IF tok = "{table}" THEN [exc |-> "none", s |-> table \o rest.s]
             ELSE IF tok = "{number}" THEN [exc |-> "none", s |-> Str(number) \o rest.s]
             ELSE IF tok = "{index}" THEN [exc |-> "KeyError", s |-> <<>>]
             ELSE [exc |-> "none", s |-> <<tok>> \o rest.s]

\* one generated statement; sep is the text between "PARTITION OF <table>" and
\* "FOR VALUES" ("\n" in partition_manager.py)
Statement(verb, name, parent, clause, args, sep) ==
    [verb |-> verb, name |-> name, parent |-> parent, clause |-> clause,
     args |-> args, sep |-> sep]

DropStatement(name) == Statement("DROP TABLE IF EXISTS", name, <<>>, "", <<>>, "")

\* the shard name computed in iteration i (0-based) of each generator loop
ShardName(config, i) == Format(config.naming_pattern, config.table_name, i)

\* a loop of n iterations, iteration i appending stmts[i + 1]: the first
\* iteration whose naming_pattern.format raises ends the loop with KeyError
LoopOutcome(config, n, stmts) ==
    IF \E i \in 0..(n - 1) : ShardName(config, i).exc # "none"
    THEN [exc |-> "KeyError", statements |-> <<>>]
    ELSE [exc |-> "none", statements |-> stmts]

\* mutant: the remainder counted from 1 instead of 0
Mut_generate_hash_partitions(config) ==
    LoopOutcome(config, config.partition_count,
        [k \in 1..config.partition_count |->
            Statement("CREATE TABLE", ShardName(config, k - 1).s, config.table_name, "WITH",
                      <<Str(config.partition_count), Str(k)>>, "\n")])

_generate_hash_partitions(config) ==
    LoopOutcome(config, config.partition_count,
        [k \in 1..config.partition_count |->
            Statement("CREATE TABLE", ShardName(config, k - 1).s, config.table_name, "WITH",
                      <<Str(config.partition_count), Str(k - 1)>>, "\n")])

\* mutant: the two bounds of a pair exchanged
Mut_generate_range_partitions(config) ==
    IF ~Truthy(config.range_bounds)
    THEN [exc |-> "PartitionSQLError", statements |-> <<>>]
    ELSE LET bounds == config.range_bounds.val
         IN  LoopOutcome(config, Len(bounds),
                 [k \in 1..Len(bounds) |->
                     Statement("CREATE TABLE", ShardName(config, k - 1).s, config.table_name,
                               "FROM_TO", <<Str(bounds[k][2]), Str(bounds[k][1])>>, "\n")])

\* for i, (start, end) in enumerate(config.range_bounds)
_generate_range_partitions(config) ==
    IF ~Truthy(config.range_bounds)
    THEN [exc |-> "PartitionSQLError", statements |-> <<>>]
    ELSE LET bounds == config.range_bounds.val
         IN  LoopOutcome(config, Len(bounds),
                 [k \in 1..Len(bounds) |->
                     Statement("CREATE TABLE", ShardName(config, k - 1).s, config.table_name,
                               "FROM_TO", <<Str(bounds[k][1]), Str(bounds[k][2])>>, "\n")])

\* mutant: only the first value of a list or tuple
MutInValues(entry) == IF Len(entry.vals) = 0 THEN <<"">> ELSE <<entry.vals[1]>>

\* the text between "IN ('" and "')": a list or tuple is joined with "', '"
\* (nothing joined is the empty text, i.e. one empty value), a scalar is itself
InValues(entry) ==
    IF entry.group
    THEN IF Len(entry.vals) = 0 THEN <<"">> ELSE entry.vals
    ELSE <<entry.vals[1]>>

_generate_list_partitions(config) ==
    IF ~Truthy(config.custom_values)
    THEN [exc |-> "PartitionSQLError", statements |-> <<>>]
    ELSE LET values == config.custom_values.val
         IN  LoopOutcome(config, Len(values),
                 [k \in 1..Len(values) |->
                     Statement("CREATE TABLE", ShardName(config, k - 1).s, config.table_name,
                               "IN", InValues(values[k]), "\n")])

\* mutant: the exception raised inside the try let through as it is
MutSqlOutcome(r) ==
    IF r.exc = "none" THEN [state |-> "ok", statements |-> r.statements]
    ELSE [state |-> r.exc, statements |-> <<>>]

\* every exception raised inside the try is re-raised as PartitionSQLError
SqlOutcome(r) ==
    IF r.exc = "none" THEN [state |-> "ok", statements |-> r.statements]
    ELSE [state |-> "PartitionSQLError", statements |-> <<>>]

generate_creation_sql(config) ==
    SqlOutcome(
        IF config.strategy = HASH THEN _generate_hash_partitions(config)
        ELSE IF config.strategy = RANGE THEN _generate_range_partitions(config)
        ELSE IF config.strategy = LIST THEN _generate_list_partitions(config)
        ELSE [exc |-> "PartitionSQLError", statements |-> <<>>])

\* the number of iterations of generate_drop_sql's loop
DropCount(config) ==
    IF config.strategy \in {HASH, RANGE} THEN config.partition_count
    ELSE IF config.strategy = LIST /\ Truthy(config.custom_values)
    THEN Len(config.custom_values.val)
    ELSE 0

generate_drop_sql(config) ==
    SqlOutcome(
        LoopOutcome(config, DropCount(config),
            [k \in 1..DropCount(config) |-> DropStatement(ShardName(config, k - 1).s)]))

(***************************************************************************)
(* Inputs of the partition component                                       *)
(***************************************************************************)
MaxPartitionCount == 4

MaxRangeBounds == 2

MaxCustomValues == 2

MaxHashValue == 9

TableNames ==
    {<<"o", "r", "d">>, <<"_", "t", "1">>, <<"1", "t">>, <<"o", "\n">>, <<>>}

ColumnNames == {<<"i", "d">>, <<"a", "-", "b">>, <<"i", "d", "\n">>}

NamingPatterns == {DefaultNamingPattern, <<"s", "{number}", "_", "{table}">>}

RangePairs == {<<0, 10>>, <<10, 20>>}

ListEntries ==
    {[group |-> FALSE, vals |-> <<"a">>], [group |-> TRUE, vals |-> <<"b", "c">>],
     [group |-> TRUE, vals |-> <<>>]}

ConstructorArgs ==
    [table_name : TableNames,
     strategy : PartitionStrategy,
     column : ColumnNames,
     partition_count : 0..MaxPartitionCount,
     naming_pattern : NamingPatterns,
     custom_values : {None} \cup {Some(v) : v \in SeqsOf(ListEntries, 0, MaxCustomValues)},
     range_bounds : {None} \cup {Some(v) : v \in SeqsOf(RangePairs, 0, MaxRangeBounds)}]

NotCalled == [state |-> "none", statements |-> <<>>]

(***************************************************************************)
(* Partition component: construct a config, then generate its SQL          *)
(***************************************************************************)
PartIdle ==
    /\ partition_config = [state |-> "idle", cfg |-> <<>>]
    /\ creation_sql = NotCalled
    /\ drop_sql = NotCalled

InitPart ==
    /\ partition_config \in {[state |-> "args", cfg |-> a] : a \in ConstructorArgs}
    /\ creation_sql = NotCalled
    /\ drop_sql = NotCalled

Construct ==
    /\ partition_config.state = "args"
    /\ partition_config' = PartitionConfig(partition_config.cfg)
    /\ UNCHANGED <<creation_sql, drop_sql, notPart>>

GenerateCreationSql ==
    /\ partition_config.state = "ok"
    /\ creation_sql.state = "none"
    /\ creation_sql' = generate_creation_sql(partition_config.cfg)
    /\ UNCHANGED <<partition_config, drop_sql, notPart>>

GenerateDropSql ==
    /\ partition_config.state = "ok"
    /\ drop_sql.state = "none"
    /\ drop_sql' = generate_drop_sql(partition_config.cfg)
    /\ UNCHANGED <<partition_config, creation_sql, notPart>>

(***************************************************************************)
(* include_object: the autogenerate filter (alembic/env.py)                *)
(***************************************************************************)
\* whether sub occurs in s at position i (1-based)
OccursAt(s, sub, i) ==
    /\ i >= 1
    /\ i + Len(sub) - 1 <= Len(s)
    /\ SubSeq(s, i, i + Len(sub) - 1) = sub

\* sub in s
Contains(s, sub) == \E i \in 1..(Len(s) + 1) : OccursAt(s, sub, i)

\* s.endswith(sub)
EndsWith(s, sub) == OccursAt(s, sub, Len(s) - Len(sub) + 1)

\* s.isdigit(): at least one character, all of them digits
IsDigit(s) == Len(s) > 0 /\ \A i \in 1..Len(s) : s[i] \in Digit

\* s.rsplit(sep, 1): split at the last occurrence of sep, if there is one
RSplit1(s, sep) ==
    IF ~Contains(s, sep) THEN <<s>>
    ELSE LET i == CHOOSE j \in 1..Len(s) :
                     /\ OccursAt(s, sep, j)
                     /\ \A k \in (j + 1)..Len(s) : ~OccursAt(s, sep, k)
         IN  <<SubSeq(s, 1, i - 1), SubSeq(s, i + Len(sep), Len(s))>>

\* s.split(sep, 1): split at the first occurrence of sep, if there is one
Split1(s, sep) ==
    IF ~Contains(s, sep) THEN <<s>>
    ELSE LET i == CHOOSE j \in 1..Len(s) :
                     /\ OccursAt(s, sep, j)
                     /\ \A k \in 1..(j - 1) : ~OccursAt(s, sep, k)
         IN  <<SubSeq(s, 1, i - 1), SubSeq(s, i + Len(sep), Len(s))>>

\* s.split(sep)[0]
SplitFirst(s, sep) == Split1(s, sep)[1]

UnderscoreP == <<"_", "p">>

IdxSuffix == <<"_", "i", "d", "x">>

\* "call_history_friendly_id_fkey"
FkeyConvention ==
    <<"c", "a", "l", "l", "_", "h", "i", "s", "t", "o", "r", "y", "_",
      "f", "r", "i", "e", "n", "d", "l", "y", "_", "i", "d", "_", "f", "k", "e", "y">>

\* mutant: split at the first "_p" instead of the last
MutPartitionSuffix(name) == Split1(name, UnderscoreP)

\* parts = name.rsplit("_p", 1)
PartitionSuffix(name) == RSplit1(name, UnderscoreP)

\* "_p" in name, then len(parts) == 2 and parts[1].isdigit()
IsPartitionTableName(name) ==
    /\ Contains(name, UnderscoreP)
    /\ LET parts == PartitionSuffix(name)
       IN  Len(parts) = 2 /\ IsDigit(parts[2])

\* "_p" in name and name.endswith("_idx"), then the text between the last
\* "_p" and the next "_" is all digits
IsPartitionIndexName(name) ==
    /\ Contains(name, UnderscoreP)
    /\ EndsWith(name, IdxSuffix)
    /\ LET parts == PartitionSuffix(name)
       IN  Len(parts) >= 2 /\ IsDigit(SplitFirst(parts[2], <<"_">>))

\* the filter without the test on the constraint's own name
Mut_include_object(type_, name, referred) ==
    IF type_ = "table" /\ Truthy(name) /\ IsPartitionTableName(name.val) THEN FALSE
    ELSE IF type_ = "index" /\ Truthy(name) /\ IsPartitionIndexName(name.val) THEN FALSE
    ELSE IF type_ = "foreign_key_constraint" /\ referred.some
            /\ IsPartitionTableName(referred.val) THEN FALSE
    ELSE TRUE

\* include_object(object, name, type_, reflected, compare_to); name is None or
\* a string, referred is object.referred_table.name when object has the attribute
include_object(type_, name, referred) ==
    IF type_ = "table" /\ Truthy(name) /\ IsPartitionTableName(name.val) THEN FALSE
    ELSE IF type_ = "index" /\ Truthy(name) /\ IsPartitionIndexName(name.val) THEN FALSE
    ELSE IF type_ = "foreign_key_constraint" /\ referred.some
            /\ IsPartitionTableName(referred.val) THEN FALSE
    ELSE IF type_ = "foreign_key_constraint" /\ Truthy(name)
            /\ Contains(name.val, FkeyConvention)
            /\ IsDigit(<<name.val[Len(name.val)]>>) THEN FALSE
    ELSE TRUE

(***************************************************************************)
(* Inputs of the filter                                                    *)
(***************************************************************************)
MaxNameChunks == 6

RECURSIVE Flatten(_)
Flatten(ss) == IF Len(ss) = 0 THEN <<>> ELSE Head(ss) \o Flatten(Tail(ss))

NameChunks == {<<"o">>, <<"3">>, <<"_">>, UnderscoreP, IdxSuffix}

ChunkNames == {Flatten(cs) : cs \in SeqsOf(NameChunks, 0, MaxNameChunks)}

ReferredNames ==
    {<<"o">>, <<"o", "_", "p">>, <<"o", "_", "p", "3">>, <<"o", "_", "p", "o">>,
     <<"o", "_", "p", "_", "p", "3", "0">>}

ConstraintNames ==
    {<<"f", "k", "_", "o">>, <<"f", "k", "_", "o", "1">>, FkeyConvention,
     FkeyConvention \o <<"1">>, <<"a", "_">> \o FkeyConvention \o <<"2">>,
     FkeyConvention \o <<"_", "x">>, <<>>}

Candidates ==
    [type_ : {"table", "index"},
     name : {None} \cup {Some(n) : n \in ChunkNames},
     referred : {None}]
    \cup
    [type_ : {"foreign_key_constraint"},
     name : {None} \cup {Some(n) : n \in ConstraintNames},
     referred : {None} \cup {Some(n) : n \in ReferredNames}]
    \cup
    [type_ : {"column", "unique_constraint"},
     name : {None} \cup {Some(n) : n \in ReferredNames \cup ConstraintNames},
     referred : {None}]

FilterIdle ==
    /\ candidate = [type_ |-> "idle", name |-> None, referred |-> None]
    /\ included = "idle"

InitFilter ==
    /\ candidate \in Candidates
    /\ included = "none"

IncludeObject ==
    /\ included = "none"
    /\ included' = IF include_object(candidate.type_, candidate.name, candidate.referred)
                   THEN "True" ELSE "False"
    /\ UNCHANGED <<candidate, notFilter>>

(***************************************************************************)
(* generate_enum_migration_ops (alembic/env.py)                            *)
(***************************************************************************)
\* the labels in code point order, as sorted() compares them
LabelOrder == <<"A", "B", "C">>

Labels == {LabelOrder[i] : i \in 1..Len(LabelOrder)}

LabelRank(v) == CHOOSE i \in 1..Len(LabelOrder) : LabelOrder[i] = v

\* mutant: the values in descending order
RECURSIVE MutSorted(_)
MutSorted(S) ==
    IF S = {} THEN <<>>
    ELSE LET m == CHOOSE x \in S : \A y \in S : LabelRank(x) >= LabelRank(y)
         IN  <<m>> \o MutSorted(S \ {m})

\* sorted(S)
RECURSIVE Sorted(_)
Sorted(S) ==
    IF S = {} THEN <<>>
    ELSE LET m == CHOOSE x \in S : \A y \in S : LabelRank(x) <= LabelRank(y)
         IN  <<m>> \o Sorted(S \ {m})

\* set(xs)
SetOf(xs) == {xs[i] : i \in 1..Len(xs)}

\* ops.ExecuteSQLOp(<text>): the statement's kind and what it interpolates
ExecuteSQLOp(kind, name, values) ==
    [op |-> "ExecuteSQLOp", kind |-> kind, name |-> name, values |-> values]

\* the offline branch and the except branch: create every model enum
RECURSIVE OfflineEnumOps(_)
OfflineEnumOps(defs) ==
    IF Len(defs) = 0 THEN [upgrade_ops |-> <<>>, downgrade_ops |-> <<>>]
    ELSE LET d == Head(defs)
             rest == OfflineEnumOps(Tail(defs))
         IN  [upgrade_ops |->
                  <<ExecuteSQLOp("CREATE TYPE IF NOT EXISTS", d.name, d.values)>>
                  \o rest.upgrade_ops,
              downgrade_ops |->
                  <<ExecuteSQLOp("DROP TYPE IF EXISTS", d.name, <<>>)>>
                  \o rest.downgrade_ops]

\* mutant: the values on one side only, live-only values included
MutNewValuesEitherSide(model_values, db_values) ==
    (model_values \ db_values) \cup (db_values \ model_values)

\* mutant: every model value counted as new
MutNewValues(model_values, db_values) == model_values

\* new_values = model_values - db_values
NewValues(model_values, db_values) == model_values \ db_values

\* [ALTER TYPE ... ADD VALUE IF NOT EXISTS '<v>' for v in values]
AddValueOps(name, values) ==
    [i \in 1..Len(values) |->
        ExecuteSQLOp("ALTER TYPE ADD VALUE IF NOT EXISTS", name, <<values[i]>>)]

\* one iteration of the comparison loop; existing[name] = {} when the name
\* is not a key of existing_enums
CompareEnum(d, existing) ==
    LET new_values == NewValues(SetOf(d.values), existing[d.name])
    IN  IF existing[d.name] = {}
        THEN [upgrade_ops |-> <<ExecuteSQLOp("CREATE TYPE", d.name, d.values)>>,
              downgrade_ops |-> <<ExecuteSQLOp("DROP TYPE IF EXISTS", d.name, <<>>)>>]
        ELSE IF new_values # {}
        THEN [upgrade_ops |->
                  <<ExecuteSQLOp("-- Add new enum values to", d.name, <<>>)>>
                  \o AddValueOps(d.name, Sorted(new_values)),
              downgrade_ops |->
                  <<ExecuteSQLOp("-- Note: PostgreSQL doesn't support removing enum values from",
                                 d.name, <<>>),
                    ExecuteSQLOp("-- Removed values:", <<>>, Sorted(new_values))>>]
        ELSE [upgrade_ops |-> <<>>, downgrade_ops |-> <<>>]

RECURSIVE OnlineEnumOps(_, _)
OnlineEnumOps(defs, existing) ==
    IF Len(defs) = 0 THEN [upgrade_ops |-> <<>>, downgrade_ops |-> <<>>]
    ELSE LET one == CompareEnum(Head(defs), existing)
             rest == OnlineEnumOps(Tail(defs), existing)
         IN  [upgrade_ops |-> one.upgrade_ops \o rest.upgrade_ops,
              downgrade_ops |-> one.downgrade_ops \o rest.downgrade_ops]

\* the points of the try block that can raise: context.get_bind(),
\* bind.execute(...), and the loop over the rows after some of them were read
RaisingBinds == {"get_bind_raises", "execute_raises", "rows_raise"}

\* mutant: a statement appended in the try block before it raised
MutOpsWhenRaised ==
    [upgrade_ops |-> <<ExecuteSQLOp("-- Add new enum values to", <<>>, <<>>)>>,
     downgrade_ops |-> <<>>]

\* upgrade_ops and downgrade_ops when control reaches the except branch: the
\* try block fills only existing_enums before any of its raising points
OpsWhenRaised == [upgrade_ops |-> <<>>, downgrade_ops |-> <<>>]

\* the except branch appends to the lists the function started with
ExceptBranch(defs, so_far) ==
    [upgrade_ops |-> so_far.upgrade_ops \o OfflineEnumOps(defs).upgrade_ops,
     downgrade_ops |-> so_far.downgrade_ops \o OfflineEnumOps(defs).downgrade_ops]

\* db.bind: "none" (get_bind() returns None), one of RaisingBinds, or "ok"
\* with db.existing the rows of pg_enum by type name
generate_enum_migration_ops(defs, db) ==
    IF db.bind = "none" THEN OfflineEnumOps(defs)
    ELSE IF db.bind \in RaisingBinds THEN ExceptBranch(defs, OpsWhenRaised)
    ELSE OnlineEnumOps(defs, db.existing)

(***************************************************************************)
(* Inputs of the enum synchronizer                                         *)
(***************************************************************************)
EnumNames == {<<"s", "t", "a", "t", "u", "s">>, <<"k", "i", "n", "d">>}

\* a sequence without repeated elements
Injective(xs) == \A i, j \in 1..Len(xs) : i # j => xs[i] # xs[j]

EnumValueLists == {vs \in SeqsOf(Labels, 1, Cardinality(Labels)) : Injective(vs)}

EnumDefinitionDicts ==
    {ds \in SeqsOf([name : EnumNames, values : EnumValueLists], 0, Cardinality(EnumNames)) :
        Injective([i \in 1..Len(ds) |-> ds[i].name])}

NoEnums == [n \in EnumNames |-> {}]

\* existing is what pg_enum holds; with "rows_raise" the rows read so far
Databases ==
    {[bind |-> b, existing |-> NoEnums] : b \in {"none", "get_bind_raises", "execute_raises"}}
    \cup {[bind |-> b, existing |-> e] :
              b \in {"ok", "rows_raise"}, e \in [EnumNames -> SUBSET Labels]}

NoOps == [state |-> "none", upgrade_ops |-> <<>>, downgrade_ops |-> <<>>]

NoDatabase == [bind |-> "idle", existing |-> NoEnums]

EnumIdle ==
    /\ enum_definitions = <<>>
    /\ enum_ops = NoOps

InitEnum ==
    /\ enum_definitions \in EnumDefinitionDicts
    /\ database \in Databases
    /\ enum_ops = NoOps

GenerateEnumMigrationOps ==
    /\ enum_ops.state = "none"
    /\ LET r == generate_enum_migration_ops(enum_definitions, database)
       IN  enum_ops' = [state |-> "returned", upgrade_ops |-> r.upgrade_ops,
                        downgrade_ops |-> r.downgrade_ops]
    /\ UNCHANGED <<enum_definitions, database, notEnum>>

(***************************************************************************)
(* get_next_sequence_number (alembic/env.py)                               *)
(***************************************************************************)
DotPy == <<".", "p", "y">>

\* s.startswith(prefix)
StartsWith(s, prefix) == OccursAt(s, prefix, 1)

\* versions_dir.glob("*.py"), minus the names that start with "__"
MigrationFiles(files) ==
    {f \in files : EndsWith(f, DotPy) /\ ~StartsWith(f, <<"_", "_">>)}

\* re.match(r"^(\d{4})_", name)
HasSequencePrefix(f) ==
    /\ Len(f) >= 5
    /\ \A i \in 1..4 : f[i] \in Digit
    /\ f[5] = "_"

\* int(match.group(1)) of every file the pattern matches
SequenceNumbers(files) ==
    {ParseInt(SubSeq(f, 1, 4)) : f \in {g \in MigrationFiles(files) : HasSequencePrefix(g)}}

Max(S) == CHOOSE x \in S : \A y \in S : y <= x

\* f"{n:04d}": zero-padded to at least four digits
Format04d(n) ==
    LET d == Str(n)
    IN  IF Len(d) >= 4 THEN d ELSE [i \in 1..(4 - Len(d)) |-> "0"] \o d

\* mutant: the count of numbered files plus one, which fills gaps
MutNextFromNumbers(sequence_numbers) == Format04d(Cardinality(sequence_numbers) + 1)

\* f"{max(sequence_numbers) + 1:04d}"
NextFromNumbers(sequence_numbers) == Format04d(Max(sequence_numbers) + 1)

\* mutant: the count of existing files ignored
MutNextFromCount(existing_files) == Format04d(1)

\* existing_files = [f for f in versions_dir.glob("*.py") if not f.name.startswith("__")];
\* f"{len(existing_files) + 1:04d}"
NextFromCount(existing_files) == Format04d(Cardinality(existing_files) + 1)

\* versions_dir.glob(...): the entries of the directory; pathlib's glob ends
\* silently on the PermissionError of a directory that may not be listed
Glob(v) == IF v.readable THEN v.files ELSE {}

\* get_next_sequence_number(): the string returned, or the exception that
\* escapes it. The function has no try/except: the one call that can raise is
\* versions_dir.exists(), whose stat fails with EACCES when the path may not
\* be searched (pathlib re-raises it as PermissionError).
get_next_sequence_number(v) ==
    IF ~v.script_location THEN [exc |-> "none", value |-> Format04d(1)]
    ELSE IF ~v.reachable THEN [exc |-> "PermissionError", value |-> <<>>]
    ELSE IF ~v.exists THEN [exc |-> "none", value |-> Format04d(1)]
    ELSE IF SequenceNumbers(Glob(v)) # {}
    THEN [exc |-> "none", value |-> NextFromNumbers(SequenceNumbers(Glob(v)))]
    ELSE [exc |-> "none", value |-> NextFromCount(MigrationFiles(Glob(v)))]

(***************************************************************************)
(* Metadata scanning in alembic/env.py                                     *)
(***************************************************************************)
\* table.kwargs["postgresql_partition_by"] if the key is there, else
\* table.info["postgresql_partition_by"] if the key is there, else None
PartitionByOf(table) ==
    IF table.kwargs.some THEN table.kwargs
    ELSE IF table.info.some THEN table.info
    ELSE None

\* get_partitioned_tables(): the names of the tables whose clause is truthy
\* (the dict's keys), and the clause of each
get_partitioned_tables(metadata) ==
    {metadata[i].name : i \in {j \in 1..Len(metadata) : Truthy(PartitionByOf(metadata[j]))}}

PartitionByClause(metadata, table_name) ==
    LET i == CHOOSE j \in 1..Len(metadata) : metadata[j].name = table_name
    IN  PartitionByOf(metadata[i]).val

\* dict assignment d[name] = values: a known key keeps its place
DictPut(d, name, values) ==
    IF \E i \in 1..Len(d) : d[i].name = name
    THEN [i \in 1..Len(d) |-> IF d[i].name = name THEN [name |-> name, values |-> values]
                                ELSE d[i]]
    ELSE Append(d, [name |-> name, values |-> values])

\* the Enum columns of all tables, in table and column order
RECURSIVE EnumColumns(_)
EnumColumns(metadata) ==
    IF Len(metadata) = 0 THEN <<>>
    ELSE Head(metadata).enum_columns \o EnumColumns(Tail(metadata))

RECURSIVE DictOf(_)
DictOf(columns) ==
    IF Len(columns) = 0 THEN <<>>
    ELSE LET c == columns[Len(columns)]
         IN  DictPut(DictOf(SubSeq(columns, 1, Len(columns) - 1)), c.name, c.values)

\* get_model_enum_definitions()
get_model_enum_definitions(metadata) == DictOf(EnumColumns(metadata))

(***************************************************************************)
(* process_revision_directives (alembic/env.py)                            *)
(***************************************************************************)
CreateTableOp(table_name) ==
    [op |-> "CreateTableOp", kind |-> "", name |-> table_name, values |-> <<>>]

DropTableOp(table_name) ==
    [op |-> "DropTableOp", kind |-> "", name |-> table_name, values |-> <<>>]

CreateIndexOp(table_name) ==
    [op |-> "CreateIndexOp", kind |-> "", name |-> table_name, values |-> <<>>]

DropIndexOp(table_name) ==
    [op |-> "DropIndexOp", kind |-> "", name |-> table_name, values |-> <<>>]

\* ops.ExecuteSQLOp(sql) for a statement of the partition shapes
ExecuteStatementOp(stmt) ==
    [op |-> "ExecuteSQLOp", kind |-> stmt.verb, name |-> stmt.name, values |-> stmt.args,
     parent |-> stmt.parent, clause |-> stmt.clause, sep |-> stmt.sep]

\* the default of generate_partition_sql's num_partitions
EnvNumPartitions == 4

\* range(4) in the downgrade loop
EnvDropPartitions == 4

\* f"{table_name}_p{i}"
EnvPartitionName(table_name, i) == table_name \o UnderscoreP \o Str(i)

\* generate_partition_sql(table_name, partition_config, num_partitions):
\* statements only when the clause starts with "HASH"
generate_partition_sql(table_name, partition_by, num_partitions) ==
    IF StartsWith(partition_by, <<"H", "A", "S", "H">>)
    THEN [k \in 1..num_partitions |->
             Statement("CREATE TABLE", EnvPartitionName(table_name, k - 1), table_name, "WITH",
                       <<Str(num_partitions), Str(k - 1)>>, "\n                ")]
    ELSE <<>>

\* ops.ExecuteSQLOp(f"-- Auto-generated partitions for {table_name}")
CommentOp(table_name) ==
    ExecuteStatementOp(Statement("-- Auto-generated partitions for", table_name, <<>>, "", <<>>, ""))

\* what the upgrade loop collects in ops_to_add
RECURSIVE OpsToAdd(_, _)
OpsToAdd(ops, metadata) ==
    IF Len(ops) = 0 THEN <<>>
    ELSE LET op == Head(ops)
             sqls == generate_partition_sql(op.name, PartitionByClause(metadata, op.name),
                                            EnvNumPartitions)
         IN  (IF op.op = "CreateTableOp" /\ op.name \in get_partitioned_tables(metadata)
              THEN <<CommentOp(op.name)>> \o [k \in 1..Len(sqls) |-> ExecuteStatementOp(sqls[k])]
              ELSE <<>>)
             \o OpsToAdd(Tail(ops), metadata)

\* what the downgrade loop collects in partition_drops
RECURSIVE PartitionDrops(_, _)
PartitionDrops(ops, metadata) ==
    IF Len(ops) = 0 THEN <<>>
    ELSE LET op == Head(ops)
         IN  (IF op.op = "DropTableOp" /\ op.name \in get_partitioned_tables(metadata)
              THEN [k \in 1..EnvDropPartitions |->
                       ExecuteStatementOp(DropStatement(EnvPartitionName(op.name, k - 1)))]
              ELSE <<>>)
             \o PartitionDrops(Tail(ops), metadata)

\* mutant: the engine's operations in reverse order
MutSpliceUpgradeReversed(ops, enum_upgrade_ops, ops_to_add) ==
    enum_upgrade_ops \o [k \in 1..Len(ops) |-> ops[Len(ops) + 1 - k]] \o ops_to_add

\* mutant: the shard statements put in front of the list
MutSpliceUpgrade(ops, enum_upgrade_ops, ops_to_add) == ops_to_add \o enum_upgrade_ops \o ops

\* directive.upgrade_ops.ops = enum_upgrade_ops + ops, then .extend(ops_to_add)
SpliceUpgrade(ops, enum_upgrade_ops, ops_to_add) == enum_upgrade_ops \o ops \o ops_to_add

\* mutant: the enum downgrade operations put in front of the list
MutSpliceDowngrade(ops, enum_downgrade_ops, partition_drops) ==
    enum_downgrade_ops \o partition_drops \o ops

\* directive.downgrade_ops.ops = partition_drops + ops, then .extend(enum_downgrade_ops)
SpliceDowngrade(ops, enum_downgrade_ops, partition_drops) ==
    partition_drops \o ops \o enum_downgrade_ops

\* the revision id left as the engine chose it
MutPrefixedRevId(sequence_num, original_rev_id) == original_rev_id

\* directive.rev_id = f"{sequence_num}_{original_rev_id}"
PrefixedRevId(sequence_num, original_rev_id) ==
    sequence_num \o <<"_">> \o original_rev_id

\* the body of the two loops over directives, for one directive; an op list
\* is None when the directive has no such attribute or it is falsy
ProcessDirective(d, sequence_num, metadata, enum_ops_) ==
    [rev_id |-> PrefixedRevId(sequence_num, d.rev_id),
     upgrade_ops |->
         IF d.upgrade_ops.some
         THEN Some(SpliceUpgrade(d.upgrade_ops.val, enum_ops_.upgrade_ops,
                                 OpsToAdd(d.upgrade_ops.val, metadata)))
         ELSE d.upgrade_ops,
     downgrade_ops |->
         IF d.downgrade_ops.some
         THEN Some(SpliceDowngrade(d.downgrade_ops.val, enum_ops_.downgrade_ops,
                                   PartitionDrops(d.downgrade_ops.val, metadata)))
         ELSE d.downgrade_ops]

\* process_revision_directives(context, revision, directives): the directives
\* as it leaves them, or the exception it lets through
process_revision_directives(ds, v, metadata, db) ==
    IF Len(ds) = 0 THEN [exc |-> "none", list |-> ds]
    ELSE LET sequence_num == get_next_sequence_number(v)
             enum_ops_ == generate_enum_migration_ops(get_model_enum_definitions(metadata), db)
         IN  IF sequence_num.exc # "none" THEN [exc |-> sequence_num.exc, list |-> ds]
             ELSE [exc |-> "none",
                   list |-> [i \in 1..Len(ds) |->
                                ProcessDirective(ds[i], sequence_num.value, metadata, enum_ops_)]]

(***************************************************************************)
(* PartitionDetector and PartitionManager (utils/partition_manager.py)     *)
(***************************************************************************)
LowerLetters ==
    <<"a", "b", "c", "d", "e", "f", "g", "h", "i", "j", "k", "l", "m",
      "n", "o", "p", "q", "r", "s", "t", "u", "v", "w", "x", "y", "z">>

UpperLetters ==
    <<"A", "B", "C", "D", "E", "F", "G", "H", "I", "J", "K", "L", "M",
      "N", "O", "P", "Q", "R", "S", "T", "U", "V", "W", "X", "Y", "Z">>

\* s.upper()
Upper(s) ==
    [i \in 1..Len(s) |->
        IF s[i] \in LowerCase
        THEN UpperLetters[CHOOSE k \in 1..Len(LowerLetters) : LowerLetters[k] = s[i]]
        ELSE s[i]]

\* the characters \s matches and str.strip() removes
Whitespace == {" ", "\t", "\n"}

\* s.strip()
Strip(s) ==
    LET keep == {i \in 1..Len(s) : s[i] \notin Whitespace}
    IN  IF keep = {} THEN <<>>
        ELSE SubSeq(s, CHOOSE i \in keep : \A j \in keep : i <= j,
                       CHOOSE i \in keep : \A j \in keep : j <= i)

\* the characters \w matches
WordChars == LowerCase \cup UpperCase \cup Digit \cup {"_"}

\* the first position from i on whose character is not in the class, or
\* Len(s) + 1
SkipWhile(s, i, class) ==
    CHOOSE k \in i..(Len(s) + 1) :
        /\ \A j \in i..(k - 1) : s[j] \in class
        /\ k <= Len(s) => s[k] \notin class

\* the first position from i on that holds the character, or Len(s) + 1
FirstOf(s, i, c) ==
    CHOOSE k \in i..(Len(s) + 1) :
        /\ \A j \in i..(k - 1) : s[j] # c
        /\ k <= Len(s) => s[k] = c

\* re.match(r"(\w+)\s*\(\s*([^)]+)\s*\)", s): group 1 is the longest run of
\* word characters at the start, then optional whitespace and "(", then at
\* least one character up to the first ")"; group 2 is that text without its
\* leading whitespace (a text of whitespace only keeps its last character)
MatchPartitionBy(s) ==
    LET w == SkipWhile(s, 1, WordChars)
        p == SkipWhile(s, w, Whitespace)
        q == FirstOf(s, p + 1, ")")
    IN  IF w > 1 /\ p <= Len(s) /\ s[p] = "(" /\ q <= Len(s) /\ q > p + 1
        THEN [matched |-> TRUE, group1 |-> SubSeq(s, 1, w - 1),
              group2 |-> LET c == SkipWhile(s, p + 1, Whitespace)
                         IN  SubSeq(s, IF c = q THEN q - 1 ELSE c, q - 1)]
        ELSE [matched |-> FALSE, group1 |-> <<>>, group2 |-> <<>>]

\* the values of the PartitionStrategy enum, as the text they are looked up by
StrategyValues ==
    (<<"H", "A", "S", "H">> :> HASH) @@ (<<"R", "A", "N", "G", "E">> :> RANGE)
    @@ (<<"L", "I", "S", "T">> :> LIST)

\* PartitionDetector._parse_partition_by(partition_by)
_parse_partition_by(partition_by) ==
    LET m == MatchPartitionBy(Strip(partition_by))
        strategy_str == Upper(m.group1)
    IN  IF ~m.matched
        THEN [exc |-> "PartitionConfigError", strategy |-> "", column |-> <<>>]
        ELSE IF strategy_str \notin DOMAIN StrategyValues
        THEN [exc |-> "PartitionConfigError", strategy |-> "", column |-> <<>>]
        ELSE [exc |-> "none", strategy |-> StrategyValues[strategy_str],
              column |-> Strip(m.group2)]

\* PartitionManagerConfig.get_table_config(table_name): {} for an unknown table
NoOverrides ==
    [partition_count |-> None, naming_pattern |-> None, custom_values |-> None,
     range_bounds |-> None]

get_table_config(config, table_name) ==
    IF table_name \in DOMAIN config.table_configs
    THEN config.table_configs[table_name] ELSE NoOverrides

\* table_config.get(key, default)
GetOr(opt, default) == IF opt.some THEN opt.val ELSE default

\* PartitionDetector._extract_partition_config(table): state "None" for a
\* table without a truthy clause, else the PartitionConfig or the exception
_extract_partition_config(table, config) ==
    LET partition_by == PartitionByOf(table)
        parsed == _parse_partition_by(partition_by.val)
        table_config == get_table_config(config, table.name)
    IN  IF ~Truthy(partition_by) THEN [state |-> "None", cfg |-> <<>>]
        ELSE IF parsed.exc # "none" THEN [state |-> parsed.exc, cfg |-> <<>>]
        ELSE PartitionConfig(
                 [table_name |-> table.name,
                  strategy |-> parsed.strategy,
                  column |-> parsed.column,
                  partition_count |-> GetOr(table_config.partition_count,
                                            config.default_hash_partitions),
                  naming_pattern |-> GetOr(table_config.naming_pattern,
                                           config.default_naming_pattern),
                  custom_values |-> table_config.custom_values,
                  range_bounds |-> table_config.range_bounds])

\* mutant: an error on a table always raised
MutDetectionErrorIsFatal(config) == TRUE

\* if self.config.validate_partition_keys: raise PartitionConfigError(...)
DetectionErrorIsFatal(config) == config.validate_partition_keys

\* PartitionDetector.detect_partitioned_tables(metadata): the dict as a list
\* of keys and configs in insertion order, or the exception
RECURSIVE DetectFrom(_, _, _)
DetectFrom(tables, config, found) ==
    IF Len(tables) = 0 THEN [exc |-> "none", tables |-> found]
    ELSE LET table == Head(tables)
             r == _extract_partition_config(table, config)
         IN  IF r.state = "None" THEN DetectFrom(Tail(tables), config, found)
             ELSE IF r.state = "ok"
             THEN DetectFrom(Tail(tables), config,
                             Append(found, [name |-> table.name, cfg |-> r.cfg]))
             ELSE IF DetectionErrorIsFatal(config)
             THEN [exc |-> "PartitionConfigError", tables |-> <<>>]
             ELSE DetectFrom(Tail(tables), config, found)

detect_partitioned_tables(metadata, config) == DetectFrom(metadata, config, <<>>)

\* PartitionManager.analyze_metadata(metadata)
analyze_metadata(metadata, config) == detect_partitioned_tables(metadata, config)

\* the body of the try in generate_migration_sql: creation, then drop
TableMigrationSql(cfg) ==
    LET upgrade_sql == generate_creation_sql(cfg)
        downgrade_sql == generate_drop_sql(cfg)
    IN  IF upgrade_sql.state # "ok" THEN [exc |-> upgrade_sql.state, upgrade |-> <<>>,
                                          downgrade |-> <<>>]
        ELSE IF downgrade_sql.state # "ok" THEN [exc |-> downgrade_sql.state,
                                                 upgrade |-> <<>>, downgrade |-> <<>>]
        ELSE [exc |-> "none", upgrade |-> upgrade_sql.statements,
              downgrade |-> downgrade_sql.statements]

\* if self.config.validate_partition_keys: raise
GenerationErrorIsFatal(config) == config.validate_partition_keys

RECURSIVE GenerateFrom(_, _, _)
GenerateFrom(tables, config, done) ==
    IF Len(tables) = 0 THEN [exc |-> "none", sql |-> done]
    ELSE LET t == Head(tables)
             r == TableMigrationSql(t.cfg)
         IN  IF r.exc = "none"
             THEN GenerateFrom(Tail(tables), config,
                               Append(done, [name |-> t.name, upgrade |-> r.upgrade,
                                             downgrade |-> r.downgrade]))
             ELSE IF GenerationErrorIsFatal(config) THEN [exc |-> r.exc, sql |-> <<>>]
             ELSE GenerateFrom(Tail(tables), config, done)

\* PartitionManager.generate_migration_sql(metadata)
generate_migration_sql(metadata, config) ==
    LET partitioned_tables == analyze_metadata(metadata, config)
    IN  IF partitioned_tables.exc # "none"
        THEN [exc |-> partitioned_tables.exc, sql |-> <<>>]
        ELSE GenerateFrom(partitioned_tables.tables, config, <<>>)

\* [fmt(i) for i in range(n)] with naming_pattern.format: KeyError from the
\* first name that cannot be formatted
PartitionNames(cfg, table_name) ==
    IF \E i \in 0..(cfg.partition_count - 1) :
           Format(cfg.naming_pattern, table_name, i).exc # "none"
    THEN [exc |-> "KeyError", names |-> <<>>]
    ELSE [exc |-> "none",
          names |-> [k \in 1..cfg.partition_count |->
                        Format(cfg.naming_pattern, table_name, k - 1).s]]

\* the dict get_table_partition_info returns once both statement lists and
\* the names are there; an exception of any of the three escapes
PartitionInfoRecord(cfg, upgrade_sql, downgrade_sql, partition_names) ==
    IF upgrade_sql.state # "ok" THEN [exc |-> upgrade_sql.state, info |-> None]
    ELSE IF downgrade_sql.state # "ok" THEN [exc |-> downgrade_sql.state, info |-> None]
    ELSE IF partition_names.exc # "none" THEN [exc |-> partition_names.exc, info |-> None]
    ELSE [exc |-> "none",
          info |-> Some([config |-> cfg,
                         partition_count |-> Len(upgrade_sql.statements),
                         upgrade_sql |-> upgrade_sql.statements,
                         downgrade_sql |-> downgrade_sql.statements,
                         partition_names |-> partition_names.names])]

\* config = partitioned_tables[table_name] and the three computations on it
PartitionInfoOf(table_name, cfg) ==
    PartitionInfoRecord(cfg, generate_creation_sql(cfg), generate_drop_sql(cfg),
                        PartitionNames(cfg, table_name))

\* what follows partitioned_tables = self.analyze_metadata(metadata): its
\* exception escapes; a table_name that is not a key gives None
PartitionInfoIn(table_name, partitioned_tables) ==
    LET found == {t \in SetOf(partitioned_tables.tables) : t.name = table_name}
    IN  IF partitioned_tables.exc # "none"
        THEN [exc |-> partitioned_tables.exc, info |-> None]
        ELSE IF found = {} THEN [exc |-> "none", info |-> None]
        ELSE CHOOSE r \in {PartitionInfoOf(table_name, t.cfg) : t \in found} : TRUE

\* PartitionManager.get_table_partition_info(table_name, metadata): None, the
\* record, or the exception that escapes (nothing is caught here); the
\* metadata is analyzed once
get_table_partition_info(table_name, metadata, config) ==
    CHOOSE r \in {PartitionInfoIn(table_name, partitioned_tables) :
                     partitioned_tables \in {analyze_metadata(metadata, config)}} : TRUE

(***************************************************************************)
(* Inputs of a generation run                                              *)
(***************************************************************************)
MaxOps == 3

MaxFiles == 4

Orders == <<"o", "r", "d", "e", "r", "s">>

Users == <<"u", "s", "e", "r", "s">>

Status == <<"s", "t", "a", "t", "u", "s">>

\* "HASH (c)", "RANGE (c)"
HashClause == <<"H", "A", "S", "H", " ", "(", "c", ")">>

RangeClause == <<"R", "A", "N", "G", "E", " ", "(", "c", ")">>

\* "FOO (c)", "HASH c"
UnknownStrategyClause == <<"F", "O", "O", " ", "(", "c", ")">>

NoParenthesesClause == <<"H", "A", "S", "H", " ", "c">>

TableOf(name, kwargs, info, enum_columns) ==
    [name |-> name, kwargs |-> kwargs, info |-> info, enum_columns |-> enum_columns]

StatusABC == [name |-> Status, values |-> <<"A", "B", "C">>]

StatusBA == [name |-> Status, values |-> <<"B", "A">>]

PlainMetadata == <<TableOf(Orders, None, None, <<>>), TableOf(Users, None, None, <<>>)>>

MetadataSamples ==
    {PlainMetadata,
     <<TableOf(Orders, Some(HashClause), None, <<>>), TableOf(Users, None, None, <<>>)>>,
     <<TableOf(Orders, Some(HashClause), None, <<StatusABC>>), TableOf(Users, None, None, <<>>)>>,
     <<TableOf(Orders, None, Some(HashClause), <<StatusBA>>),
       TableOf(Users, Some(HashClause), None, <<StatusABC>>)>>,
     <<TableOf(Orders, Some(RangeClause), None, <<>>),
       TableOf(Users, Some(<<>>), Some(HashClause), <<>>)>>,
     <<TableOf(Orders, Some(UnknownStrategyClause), None, <<>>),
       TableOf(Users, Some(NoParenthesesClause), None, <<>>)>>}

DatabaseSamples ==
    {[bind |-> "none", existing |-> NoEnums],
     [bind |-> "ok", existing |-> NoEnums],
     [bind |-> "ok", existing |-> [n \in EnumNames |-> IF n = Status THEN {"A", "B"} ELSE {}]]}

EngineRevIds == {<<"a", "1">>, <<"b", "2">>}

UpgradeOpSamples ==
    {CreateTableOp(Orders), CreateTableOp(Users), CreateIndexOp(Orders), CreateIndexOp(Users)}

DowngradeOpSamples ==
    {DropTableOp(Orders), DropTableOp(Users), DropIndexOp(Orders), DropIndexOp(Users)}

\* an op list of the diff engine (no op twice), or None for a missing container
OpLists(samples) ==
    {None} \cup {Some(l) : l \in {m \in SeqsOf(samples, 0, MaxOps) : Injective(m)}}

\* the directives alembic hands over: a MigrationScript per revision, or none
EngineDirectives ==
    {<<>>}
    \cup {<<d>> : d \in [rev_id : {<<"a", "1">>},
                         upgrade_ops : OpLists(UpgradeOpSamples),
                         downgrade_ops : OpLists(DowngradeOpSamples)]}

EmptyDirectives ==
    SeqsOf([rev_id : EngineRevIds, upgrade_ops : {Some(<<>>)}, downgrade_ops : {Some(<<>>)}],
           0, Cardinality(EngineRevIds))

FileSamples ==
    {<<"_", "_", "i", "n", "i", "t", "_", "_">> \o DotPy,
     <<"0", "0", "0", "1", "_", "x">> \o DotPy,
     <<"0", "0", "0", "3", "_", "y">> \o DotPy,
     <<"0", "0", "0", "7", "_", "z", ".", "t", "x", "t">>,
     <<"l", "e", "g", "a", "c", "y">> \o DotPy,
     <<"o", "l", "d">> \o DotPy}

\* "9999_w.py": the revision with the highest 4-digit prefix
LastNumbered == <<"9", "9", "9", "9", "_", "w">> \o DotPy

\* script_location: the option is set; reachable: the path of the versions
\* directory may be searched; exists: the directory is there; readable: its
\* entries may be listed; files: the names of its entries
VersionsOf(script_location, reachable, exists, readable, files) ==
    [script_location |-> script_location, reachable |-> reachable, exists |-> exists,
     readable |-> readable, files |-> files]

VersionsSamples ==
    {VersionsOf(FALSE, TRUE, FALSE, FALSE, {}), VersionsOf(TRUE, TRUE, FALSE, FALSE, {})}
    \cup {VersionsOf(TRUE, s, TRUE, r, fs) :
              s \in BOOLEAN, r \in BOOLEAN, fs \in SUBSET (FileSamples \cup {LastNumbered})}

NoDirectives == [state |-> "none", engine |-> <<>>, list |-> <<>>]

NoInvocations == <<>>

RevIdle ==
    /\ versions = VersionsOf(FALSE, TRUE, FALSE, FALSE, {})
    /\ target_metadata = <<>>
    /\ directives = [state |-> "idle", engine |-> <<>>, list |-> <<>>]
    /\ invocations = NoInvocations

\* successive runs: any versions directory, a model without partitions or enums
InitSeq ==
    /\ versions \in VersionsSamples
    /\ target_metadata = PlainMetadata
    /\ database = [bind |-> "none", existing |-> NoEnums]
    /\ directives = NoDirectives
    /\ invocations = NoInvocations

\* one run: any model, the diff engine's directives at hand
InitDir ==
    /\ versions = VersionsOf(TRUE, TRUE, TRUE, TRUE, FileSamples)
    /\ target_metadata \in MetadataSamples
    /\ database \in DatabaseSamples
    /\ directives \in {[state |-> "generated", engine |-> e, list |-> e] : e \in EngineDirectives}
    /\ invocations = NoInvocations

\* the diff engine builds the directives of a new revision
AutogenerateRevision ==
    /\ directives.state = "none"
    /\ \E e \in EmptyDirectives :
           directives' = [state |-> "generated", engine |-> e, list |-> e]
    /\ UNCHANGED <<versions, target_metadata, database, notRev>>

ProcessRevisionDirectives ==
    /\ directives.state = "generated"
    /\ LET r == process_revision_directives(directives.list, versions, target_metadata, database)
       IN  directives' = [state |-> IF r.exc = "none" THEN "processed" ELSE r.exc,
                          engine |-> directives.engine,
                          list |-> r.list]
    /\ UNCHANGED <<versions, target_metadata, database, notRev>>

\* "<rev_id>_<slug>.py", the name the revision script is stored under
RevisionFile(d) == d.rev_id \o <<"_", "m">> \o DotPy

\* the external tool stores the processed revisions in the versions directory
WriteRevision ==
    /\ directives.state = "processed"
    /\ versions.script_location
    /\ versions.exists
    /\ Cardinality(versions.files) < MaxFiles
    /\ versions' = [versions EXCEPT
           !.files = @ \cup {RevisionFile(directives.list[i]) : i \in 1..Len(directives.list)}]
    /\ directives' = NoDirectives
    /\ UNCHANGED <<target_metadata, database, notRev>>

\* two generation runs started side by side; each has the one directive the
\* diff engine built for it, under the revision id the engine drew
Invocations == {1, 2}

InvocationRevIds == << <<"a", "1">>, <<"b", "2">> >>

InvocationDirectives(p) ==
    << [rev_id |-> InvocationRevIds[p], upgrade_ops |-> Some(<<>>),
        downgrade_ops |-> Some(<<>>)] >>

InitInvocations ==
    /\ versions \in VersionsSamples
    /\ target_metadata = PlainMetadata
    /\ database = [bind |-> "none", existing |-> NoEnums]
    /\ directives = [state |-> "idle", engine |-> <<>>, list |-> <<>>]
    /\ invocations = [p \in Invocations |->
                          [state |-> "generated", engine |-> InvocationDirectives(p),
                           list |-> InvocationDirectives(p), listed |-> {}]]

\* invocation p runs process_revision_directives on its directives; listed
\* keeps the entries the versions directory had at that moment
InvocationProcesses(p) ==
    /\ invocations[p].state = "generated"
    /\ LET r == process_revision_directives(invocations[p].list, versions,
                                             target_metadata, database)
       IN  invocations' = [invocations EXCEPT
               ![p] = [state |-> IF r.exc = "none" THEN "processed" ELSE r.exc,
                       engine |-> @.engine,
                       list |-> r.list,
                       listed |-> versions.files]]
    /\ UNCHANGED <<versions, target_metadata, database, notInvocations>>

\* the external tool stores the revision of invocation p
InvocationWrites(p) ==
    /\ invocations[p].state = "processed"
    /\ versions.script_location
    /\ versions.exists
    /\ versions' = [versions EXCEPT
           !.files = @ \cup {RevisionFile(invocations[p].list[i]) :
                                i \in 1..Len(invocations[p].list)}]
    /\ invocations' = [invocations EXCEPT ![p].state = "written"]
    /\ UNCHANGED <<target_metadata, database, notInvocations>>

(***************************************************************************)
(* Inputs of the partition manager                                         *)
(***************************************************************************)
\* "LIST(c)", " hash ( c ) ", "HASH ()", "HASH ( )"
ListClause == <<"L", "I", "S", "T", "(", "c", ")">>

LowerHashClause == <<" ", "h", "a", "s", "h", " ", "(", " ", "c", " ", ")", " ">>

EmptyParenthesesClause == <<"H", "A", "S", "H", " ", "(", ")">>

BlankColumnClause == <<"H", "A", "S", "H", " ", "(", " ", ")">>

ClauseSamples ==
    {HashClause, RangeClause, ListClause, LowerHashClause, UnknownStrategyClause,
     NoParenthesesClause, EmptyParenthesesClause, BlankColumnClause, <<>>}

\* "{table}_{index}": a replacement field str.format is given no value for
UnknownFieldPattern == <<"{table}", "_", "{index}">>

ManagerTables(name) ==
    {TableOf(name, k, None, <<>>) : k \in {None} \cup {Some(c) : c \in ClauseSamples}}
    \cup {TableOf(name, None, Some(HashClause), <<>>),
          TableOf(name, Some(<<>>), Some(HashClause), <<>>)}

ManagerMetadata == {<<o, u>> : o \in ManagerTables(Orders), u \in ManagerTables(Users)}

TableConfigSamples ==
    {<<>>,
     Orders :> [NoOverrides EXCEPT
                   !.range_bounds = Some(<< <<0, 10>> >>),
                   !.custom_values = Some(<<[group |-> FALSE, vals |-> <<"a">>]>>)],
     Orders :> [NoOverrides EXCEPT !.partition_count = [some |-> TRUE, val |-> 0]],
     Users :> [NoOverrides EXCEPT !.naming_pattern = Some(UnknownFieldPattern)]}

ManagerConfigs ==
    [default_hash_partitions : {DefaultPartitionCount},
     default_naming_pattern : {DefaultNamingPattern, UnknownFieldPattern},
     validate_partition_keys : BOOLEAN,
     table_configs : TableConfigSamples]

NotAnalyzed == [state |-> "none", tables |-> <<>>]

NotGenerated == [state |-> "none", sql |-> <<>>]

NotAsked == [state |-> "none", table |-> <<>>, info |-> None]

(***************************************************************************)
(* Partition manager: analyze the metadata, generate the migration SQL     *)
(***************************************************************************)
ManagerIdle ==
    /\ manager_config = <<>>
    /\ analysis = [state |-> "idle", tables |-> <<>>]
    /\ migration_sql = [state |-> "idle", sql |-> <<>>]
    /\ partition_info = [state |-> "idle", table |-> <<>>, info |-> None]

InitManager ==
    /\ target_metadata \in ManagerMetadata
    /\ manager_config \in ManagerConfigs
    /\ analysis = NotAnalyzed
    /\ migration_sql = NotGenerated
    /\ partition_info = NotAsked

AnalyzeMetadata ==
    /\ analysis.state = "none"
    /\ LET r == analyze_metadata(target_metadata, manager_config)
       IN  analysis' = [state |-> IF r.exc = "none" THEN "returned" ELSE r.exc,
                        tables |-> r.tables]
    /\ UNCHANGED <<manager_config, migration_sql, partition_info, notManager>>

GenerateMigrationSql ==
    /\ migration_sql.state = "none"
    /\ LET r == generate_migration_sql(target_metadata, manager_config)
       IN  migration_sql' = [state |-> IF r.exc = "none" THEN "returned" ELSE r.exc,
                             sql |-> r.sql]
    /\ UNCHANGED <<manager_config, analysis, partition_info, notManager>>

\* the table asked about: one of the model's tables, or a name it does not have
InfoTableNames == {Orders, Users, Status}

GetTablePartitionInfo ==
    /\ partition_info.state = "none"
    /\ \E table_name \in InfoTableNames :
           \E r \in {get_table_partition_info(table_name, target_metadata, manager_config)} :
               partition_info' = [state |-> IF r.exc = "none" THEN "returned" ELSE r.exc,
                                  table |-> table_name,
                                  info |-> r.info]
    /\ UNCHANGED <<manager_config, analysis, migration_sql, notManager>>

(***************************************************************************)
(* Specifications: one per component, the other components idle            *)
(***************************************************************************)
InitPartSpec ==
    InitPart /\ FilterIdle /\ EnumIdle /\ RevIdle /\ ManagerIdle /\ database = NoDatabase

NextPart == Construct \/ GenerateCreationSql \/ GenerateDropSql

SpecPart == InitPartSpec /\ [][NextPart]_vars

InitFilterSpec ==
    InitFilter /\ PartIdle /\ EnumIdle /\ RevIdle /\ ManagerIdle /\ database = NoDatabase

NextFilter == IncludeObject

SpecFilter == InitFilterSpec /\ [][NextFilter]_vars

InitEnumSpec == InitEnum /\ PartIdle /\ FilterIdle /\ RevIdle /\ ManagerIdle

NextEnum == GenerateEnumMigrationOps

SpecEnum == InitEnumSpec /\ [][NextEnum]_vars

\* successive generation runs against one versions directory
InitSeqSpec == InitSeq /\ PartIdle /\ FilterIdle /\ EnumIdle /\ ManagerIdle

NextSeq == AutogenerateRevision \/ ProcessRevisionDirectives \/ WriteRevision

SpecSeq == InitSeqSpec /\ [][NextSeq]_vars

\* two generation runs side by side against one versions directory
InitInvocationsSpec == InitInvocations /\ PartIdle /\ FilterIdle /\ EnumIdle /\ ManagerIdle

NextInvocations == \E p \in Invocations : InvocationProcesses(p) \/ InvocationWrites(p)

SpecInvocations == InitInvocationsSpec /\ [][NextInvocations]_vars

\* one run over the diff engine's operation lists
InitDirSpec == InitDir /\ PartIdle /\ FilterIdle /\ EnumIdle /\ ManagerIdle

NextDir == ProcessRevisionDirectives

SpecDir == InitDirSpec /\ [][NextDir]_vars

\* a PartitionManager over the model's metadata
InitManagerSpec ==
    /\ InitManager
    /\ PartIdle /\ FilterIdle /\ EnumIdle
    /\ database = NoDatabase
    /\ versions = VersionsOf(FALSE, TRUE, FALSE, FALSE, {})
    /\ directives = [state |-> "idle", engine |-> <<>>, list |-> <<>>]
    /\ invocations = NoInvocations

NextManager == AnalyzeMetadata \/ GenerateMigrationSql \/ GetTablePartitionInfo

SpecManager == InitManagerSpec /\ [][NextManager]_vars

(***************************************************************************)
(* Properties of the partition component (checked under SpecPart)          *)
(***************************************************************************)
\* the set of shard names a statement list mentions
ShardNamesOf(statements) == {statements[k].name : k \in 1..Len(statements)}

\* the identifier rule [A-Za-z_][A-Za-z0-9_]* applied to the whole string
IsIdentifier(s) ==
    /\ Len(s) >= 1
    /\ IdentHead(s[1])
    /\ \A j \in 2..Len(s) : IdentTail(s[j])

\* the validity rules of the data model
ValidArgs(a) ==
    /\ a.partition_count >= 1
    /\ IsIdentifier(a.table_name)
    /\ IsIdentifier(a.column)
    /\ (a.strategy = RANGE => Truthy(a.range_bounds))
    /\ (a.strategy = LIST => Truthy(a.custom_values))

\* C1: for a HASH config with partition_count = n, generate_creation_sql
\* returns n statements; the one at position i creates the shard the naming
\* pattern gives for i, with MODULUS n and REMAINDER i, so the remainders are
\* 0..n-1 without repeats and every hash value falls in exactly one shard.
C1_HashCreation ==
    (/\ partition_config.state = "ok"
     /\ partition_config.cfg.strategy = HASH
     /\ creation_sql.state # "none")
    => LET c == partition_config.cfg
           n == c.partition_count
           st == creation_sql.statements
       IN  /\ creation_sql.state = "ok"
           /\ Len(st) = n
           /\ \A k \in 1..n :
                /\ st[k].verb = "CREATE TABLE"
                /\ st[k].parent = c.table_name
                /\ st[k].name = Format(c.naming_pattern, c.table_name, k - 1).s
                /\ st[k].clause = "WITH"
                /\ ParseInt(st[k].args[1]) = n
                /\ ParseInt(st[k].args[2]) = k - 1
           /\ {ParseInt(st[k].args[2]) : k \in 1..Len(st)} = 0..(n - 1)
           /\ \A h \in 0..MaxHashValue :
                Cardinality({k \in 1..Len(st) :
                    h % ParseInt(st[k].args[1]) = ParseInt(st[k].args[2])}) = 1

C1_Witness ==
    /\ partition_config.state = "ok"
    /\ partition_config.cfg.strategy = HASH
    /\ partition_config.cfg.partition_count = DefaultPartitionCount
    /\ creation_sql.state = "ok"
    /\ Len(creation_sql.statements) = DefaultPartitionCount

\* C2: for every valid config of any strategy, the shard names dropped by
\* generate_drop_sql are the shard names created by generate_creation_sql.
C2_DropNamesEqualCreationNames ==
    (/\ partition_config.state = "ok"
     /\ ValidArgs(partition_config.cfg)
     /\ creation_sql.state = "ok"
     /\ drop_sql.state = "ok")
    => ShardNamesOf(drop_sql.statements) = ShardNamesOf(creation_sql.statements)

\* C3: construction succeeds if and only if the arguments satisfy the
\* validity rules; otherwise it raises PartitionConfigError.
C3_ConstructionIffValid ==
    partition_config.state \in {"ok", "PartitionConfigError"}
    => (partition_config.state = "ok" <=> ValidArgs(partition_config.cfg))

(***************************************************************************)
(* Properties of the filter (checked under SpecFilter)                     *)
(***************************************************************************)
\* name ends with "_p" followed by one or more digits
EndsWithPDigits(name) ==
    \E d \in 1..Len(name) :
        /\ IsDigit(SubSeq(name, Len(name) - d + 1, Len(name)))
        /\ EndsWith(SubSeq(name, 1, Len(name) - d), UnderscoreP)

\* name is <base>_p<digits>_<col>_idx for some non-empty column segment
IsShardIndexPattern(name) ==
    \E i \in 1..Len(name), j \in 1..Len(name) :
        /\ i > 1
        /\ OccursAt(name, UnderscoreP, i)
        /\ i + 2 < j
        /\ IsDigit(SubSeq(name, i + 2, j - 1))
        /\ name[j] = "_"
        /\ j + 1 <= Len(name) - Len(IdxSuffix)
        /\ EndsWith(name, IdxSuffix)

\* C4: for a table, the filter answers False exactly when the name ends with
\* "_p" followed by one or more digits.
C4_TableFilter ==
    (candidate.type_ = "table" /\ included \in {"True", "False"})
    => (included = "False"
        <=> (candidate.name.some /\ EndsWithPDigits(candidate.name.val)))

C4_Witness ==
    /\ candidate.type_ = "table"
    /\ candidate.name = Some(<<"o", "_", "p", "_", "p", "3">>)
    /\ included = "False"

\* name has a segment "_p" followed by one or more digits
HasPDigitsSegment(name) ==
    \E i \in 1..Len(name) :
        OccursAt(name, UnderscoreP, i) /\ i + 2 <= Len(name) /\ name[i + 2] \in Digit

\* C5: for an index, the filter answers False for every name of the form
\* <base>_p<digits>_<col>_idx, whatever the column segment is, and True for
\* every name without a "_p<digits>" segment.
C5_ShardIndexFiltered ==
    (/\ candidate.type_ = "index"
     /\ included \in {"True", "False"}
     /\ candidate.name.some)
    => /\ IsShardIndexPattern(candidate.name.val) => included = "False"
       /\ ~HasPDigitsSegment(candidate.name.val) => included = "True"

(***************************************************************************)
(* Properties of the enum synchronizer (checked under SpecEnum)            *)
(***************************************************************************)
\* the positions of ops with this kind and type name
OpsAt(ops, kind, name) ==
    {k \in 1..Len(ops) : ops[k].kind = kind /\ ops[k].name = name}

\* the model's enums that are also live and declare values the database lacks
GainingEnums ==
    {i \in 1..Len(enum_definitions) :
        /\ database.existing[enum_definitions[i].name] # {}
        /\ SetOf(enum_definitions[i].values)
               \ database.existing[enum_definitions[i].name] # {}}

\* C6: for an enum in both the model and the live snapshot with new values,
\* exactly one ADD VALUE statement per new value is emitted, the downgrade
\* carries an advisory naming exactly the new values, and no list drops the
\* type.
C6_AddValuePerNewValue ==
    (enum_ops.state = "returned" /\ database.bind = "ok")
    => \A i \in GainingEnums :
        LET d == enum_definitions[i]
            new == SetOf(d.values) \ database.existing[d.name]
            up == enum_ops.upgrade_ops
            down == enum_ops.downgrade_ops
            adds == OpsAt(up, "ALTER TYPE ADD VALUE IF NOT EXISTS", d.name)
        IN  /\ Cardinality(adds) = Cardinality(new)
            /\ \A v \in new : Cardinality({k \in adds : up[k].values = <<v>>}) = 1
            /\ \E k \in 1..(Len(down) - 1) :
                  /\ down[k].kind = "-- Note: PostgreSQL doesn't support removing enum values from"
                  /\ down[k].name = d.name
                  /\ down[k + 1].kind = "-- Removed values:"
                  /\ SetOf(down[k + 1].values) = new
            /\ \A k \in 1..Len(up) :
                  up[k].name = d.name
                  => up[k].kind \in {"-- Add new enum values to",
                                     "ALTER TYPE ADD VALUE IF NOT EXISTS"}
            /\ \A k \in 1..Len(down) :
                  down[k].name = d.name
                  => down[k].kind = "-- Note: PostgreSQL doesn't support removing enum values from"

C6_Witness ==
    /\ enum_ops.state = "returned"
    /\ database.bind = "ok"
    /\ \E i \in GainingEnums :
        /\ SetOf(enum_definitions[i].values) = {"A", "B", "C"}
        /\ database.existing[enum_definitions[i].name] = {"A", "B"}
        /\ Cardinality(OpsAt(enum_ops.upgrade_ops, "ALTER TYPE ADD VALUE IF NOT EXISTS",
                             enum_definitions[i].name)) = 1

\* the operations of a list that belong to the enum: those that name it, and
\* the "-- Removed values:" comment that follows its note
EnumOpsOf(ops, name) ==
    {ops[k] : k \in {j \in 1..Len(ops) :
                      \/ ops[j].name = name
                      \/ /\ j > 1
                         /\ ops[j].kind = "-- Removed values:"
                         /\ ops[j - 1].name = name}}

\* the statement kinds that neither drop a type nor remove a label
AppendOnlyKinds ==
    {"-- Add new enum values to", "ALTER TYPE ADD VALUE IF NOT EXISTS",
     "-- Note: PostgreSQL doesn't support removing enum values from",
     "-- Removed values:"}

\* C12: for an enum present in the model and in the live snapshot, no emitted
\* upgrade or downgrade operation drops the type or removes a label; values
\* that exist live but not in the model appear in no emitted statement; when
\* every model value already exists live nothing is emitted for the enum.
C12_AppendOnly ==
    (enum_ops.state = "returned" /\ database.bind = "ok")
    => \A i \in 1..Len(enum_definitions) :
        LET d == enum_definitions[i]
            live == database.existing[d.name]
            model == SetOf(d.values)
            emitted == EnumOpsOf(enum_ops.upgrade_ops, d.name)
                       \cup EnumOpsOf(enum_ops.downgrade_ops, d.name)
        IN  live # {}
            => /\ \A o \in emitted :
                    /\ o.kind \in AppendOnlyKinds
                    /\ SetOf(o.values) \cap (live \ model) = {}
               /\ model \subseteq live => emitted = {}

\* one enum with values on both sides only, another with nothing to add
C12_Witness ==
    /\ enum_ops.state = "returned"
    /\ database.bind = "ok"
    /\ Len(enum_definitions) = 2
    /\ \E i, j \in 1..2 :
        LET d == enum_definitions[i]
            c == enum_definitions[j]
        IN  /\ database.existing[d.name] \ SetOf(d.values) # {}
            /\ SetOf(d.values) \ database.existing[d.name] # {}
            /\ database.existing[d.name] \cap SetOf(d.values) # {}
            /\ EnumOpsOf(enum_ops.upgrade_ops, d.name) # {}
            /\ database.existing[c.name] # {}
            /\ SetOf(c.values) \subseteq database.existing[c.name]
            /\ EnumOpsOf(enum_ops.upgrade_ops, c.name) = {}

\* CREATE TYPE <name> AS ENUM (<values in declared order>), one per model enum
FullCreation(defs) ==
    [k \in 1..Len(defs) |-> ExecuteSQLOp("CREATE TYPE", defs[k].name, defs[k].values)]

\* DROP TYPE IF EXISTS <name>, one per model enum
FullRemoval(defs) ==
    [k \in 1..Len(defs) |-> ExecuteSQLOp("DROP TYPE IF EXISTS", defs[k].name, <<>>)]

\* C13: in offline mode the synchronizer's output equals its online output
\* for a snapshot without enum types: per model enum one CREATE TYPE <name>
\* AS ENUM (...) of the same shape, values in declared order, and one
\* DROP TYPE IF EXISTS <name> in the downgrade list.
C13_OfflineEqualsOnlineAbsent ==
    (enum_ops.state = "returned" /\ database.bind = "none")
    => LET online == generate_enum_migration_ops(enum_definitions,
                                                 [bind |-> "ok", existing |-> NoEnums])
       IN  /\ enum_ops.upgrade_ops = online.upgrade_ops
           /\ enum_ops.upgrade_ops = FullCreation(enum_definitions)
           /\ enum_ops.downgrade_ops = online.downgrade_ops
           /\ enum_ops.downgrade_ops = FullRemoval(enum_definitions)

\* CREATE TYPE IF NOT EXISTS <name> AS ENUM (...), the offline statement
OfflineCreation(defs) ==
    [k \in 1..Len(defs) |->
        ExecuteSQLOp("CREATE TYPE IF NOT EXISTS", defs[k].name, defs[k].values)]

\* C14: when obtaining the bind or querying the live labels raises, the
\* synchronizer returns (no error state) exactly the offline result: the
\* full creation of every model enum with a DROP TYPE IF EXISTS each, and
\* nothing left over from the online attempt.
C14_QueryFailureIsOffline ==
    (enum_ops.state # "none" /\ database.bind \in RaisingBinds)
    => /\ enum_ops.state = "returned"
       /\ enum_ops.upgrade_ops = OfflineCreation(enum_definitions)
       /\ enum_ops.downgrade_ops = FullRemoval(enum_definitions)
       /\ [upgrade_ops |-> enum_ops.upgrade_ops, downgrade_ops |-> enum_ops.downgrade_ops]
            = generate_enum_migration_ops(enum_definitions,
                                          [bind |-> "none", existing |-> NoEnums])

\* the row loop raised after rows of a model enum were read
C14_Witness ==
    /\ enum_ops.state = "returned"
    /\ database.bind = "rows_raise"
    /\ Len(enum_definitions) = 2
    /\ \E i \in 1..2 : database.existing[enum_definitions[i].name] # {}
    /\ Len(enum_ops.upgrade_ops) = 2
    /\ Len(enum_ops.downgrade_ops) = 2

(***************************************************************************)
(* Properties of a generation run (checked under SpecSeq and SpecDir)      *)
(***************************************************************************)
\* the versions directory is configured, present and can be read
VersionsReadable ==
    /\ versions.script_location
    /\ versions.reachable
    /\ versions.exists
    /\ versions.readable

\* the NNNN prefixes of the revision files in the versions directory
NumberedPrefixes ==
    IF versions.script_location /\ versions.exists
    THEN {ParseInt(SubSeq(f, 1, 4)) :
             f \in {g \in versions.files :
                       /\ EndsWith(g, DotPy)
                       /\ ~StartsWith(g, <<"_", "_">>)
                       /\ Len(g) >= 5 /\ g[5] = "_"
                       /\ IsDigit(SubSeq(g, 1, 4))}}
    ELSE {}

\* no revision file exists at all
NoRevisionExists ==
    \/ ~versions.script_location
    \/ ~versions.exists
    \/ \A f \in versions.files : ~EndsWith(f, DotPy) \/ StartsWith(f, <<"_", "_">>)

\* the text of a revision id or file name before its first "_"
SequenceOf(name) == SplitFirst(name, <<"_">>)

\* every directive's revision id is seq, "_", and the id the engine gave it
RevIdsPrefixedWith(seq) ==
    \A i \in 1..Len(directives.list) :
        directives.list[i].rev_id = seq \o <<"_">> \o directives.engine[i].rev_id

\* C7: with numbered revision files present in a versions directory that can
\* be read, the next sequence number is the highest NNNN prefix plus one (gaps
\* are not filled); with no revision it is 0001; every directive's revision
\* id becomes <sequence>_<engine id>.
C7_NextSequenceNumber ==
    (directives.state = "processed" /\ Len(directives.list) > 0)
    => /\ Len(directives.list) = Len(directives.engine)
       /\ \E seq \in {SequenceOf(directives.list[1].rev_id)} :
            /\ RevIdsPrefixedWith(seq)
            /\ (VersionsReadable /\ NumberedPrefixes # {})
                   => ParseInt(seq) = Max(NumberedPrefixes) + 1
            /\ NoRevisionExists => seq = <<"0", "0", "0", "1">>

C7_Witness ==
    /\ VersionsReadable
    /\ directives.state = "processed"
    /\ Len(directives.list) = 2
    /\ NumberedPrefixes = {1, 3}
    /\ SubSeq(directives.list[1].rev_id, 1, 4) = <<"0", "0", "0", "4">>

\* the fields of an op that the generated SQL text determines
Core(o) == [op |-> o.op, kind |-> o.kind, name |-> o.name, values |-> o.values]

CoreOf(ops) == [k \in 1..Len(ops) |-> Core(ops[k])]

\* whether the model annotates this table with exactly this clause
Annotated(table_name, clause) ==
    \E i \in 1..Len(target_metadata) :
        /\ target_metadata[i].name = table_name
        /\ \/ target_metadata[i].kwargs = Some(clause)
           \/ target_metadata[i].kwargs = None /\ target_metadata[i].info = Some(clause)

\* CREATE TABLE <table>_p<i> PARTITION OF <table> FOR VALUES WITH (MODULUS n, REMAINDER i)
ShardCreate(table_name, n, i) ==
    [op |-> "ExecuteSQLOp", kind |-> "CREATE TABLE",
     name |-> table_name \o <<"_", "p">> \o Str(i), values |-> <<Str(n), Str(i)>>]

\* DROP TABLE IF EXISTS <table>_p<i>
ShardDrop(table_name, i) ==
    [op |-> "ExecuteSQLOp", kind |-> "DROP TABLE IF EXISTS",
     name |-> table_name \o <<"_", "p">> \o Str(i), values |-> <<>>]

\* -- Auto-generated partitions for <table>
ShardComment(table_name) ==
    [op |-> "ExecuteSQLOp", kind |-> "-- Auto-generated partitions for",
     name |-> table_name, values |-> <<>>]

\* the enum operations of this run
RunEnumOps ==
    generate_enum_migration_ops(get_model_enum_definitions(target_metadata), database)

\* the diff engine created and dropped exactly the table orders
OrdersScenario ==
    /\ directives.state = "processed"
    /\ Len(directives.list) = 1
    /\ Annotated(Orders, HashClause)
    /\ directives.engine[1].upgrade_ops = Some(<<CreateTableOp(Orders)>>)
    /\ directives.engine[1].downgrade_ops = Some(<<DropTableOp(Orders)>>)

\* C8: for orders HASH with 4 shards, the upgrade list is the enum ops, the
\* orders create op, the comment and the shard creates orders_p0..orders_p3;
\* the downgrade list is the 4 shard drops, the orders drop op, the enum
\* downgrade ops.
C8_EndToEnd ==
    OrdersScenario
    => /\ directives.list[1].upgrade_ops.some
       /\ CoreOf(directives.list[1].upgrade_ops.val)
            = CoreOf(RunEnumOps.upgrade_ops)
              \o <<Core(CreateTableOp(Orders)), ShardComment(Orders)>>
              \o [k \in 1..DefaultPartitionCount |->
                     ShardCreate(Orders, DefaultPartitionCount, k - 1)]
       /\ directives.list[1].downgrade_ops.some
       /\ CoreOf(directives.list[1].downgrade_ops.val)
            = [k \in 1..DefaultPartitionCount |-> ShardDrop(Orders, k - 1)]
              \o <<Core(DropTableOp(Orders))>>
              \o CoreOf(RunEnumOps.downgrade_ops)

C8_Witness ==
    /\ OrdersScenario
    /\ RunEnumOps.upgrade_ops # <<>>
    /\ Len(directives.list[1].upgrade_ops.val) = Len(RunEnumOps.upgrade_ops) + 6
    /\ Len(directives.list[1].downgrade_ops.val) = Len(RunEnumOps.downgrade_ops) + 5

\* the number of shard statements env.py generates for a partitioned table
EnvShardCount(table_name) ==
    IF \E i \in 1..Len(target_metadata) :
           /\ target_metadata[i].name = table_name
           /\ StartsWith(PartitionByOf(target_metadata[i]).val, <<"H", "A", "S", "H">>)
    THEN DefaultPartitionCount ELSE 0

\* C9: in the upgrade list, the comment and the shard creates of a partitioned
\* table come immediately after that table's creation op.
C9_ShardsRightAfterCreate ==
    directives.state = "processed"
    => \A i \in 1..Len(directives.list) :
        directives.list[i].upgrade_ops.some
        => LET ops == directives.list[i].upgrade_ops.val
           IN  \A k \in 1..Len(ops) :
                (/\ ops[k].op = "CreateTableOp"
                 /\ ops[k].name \in get_partitioned_tables(target_metadata))
                => /\ k + 1 + EnvShardCount(ops[k].name) <= Len(ops)
                   /\ Core(ops[k + 1]) = ShardComment(ops[k].name)
                   /\ \A j \in 1..EnvShardCount(ops[k].name) :
                        Core(ops[k + 1 + j])
                            = ShardCreate(ops[k].name, DefaultPartitionCount, j - 1)

\* C10: in the downgrade list, the shard drops of a partitioned table come
\* immediately before that table's deletion op.
C10_DropsRightBeforeDropTable ==
    directives.state = "processed"
    => \A i \in 1..Len(directives.list) :
        directives.list[i].downgrade_ops.some
        => LET ops == directives.list[i].downgrade_ops.val
           IN  \A k \in 1..Len(ops) :
                (/\ ops[k].op = "DropTableOp"
                 /\ ops[k].name \in get_partitioned_tables(target_metadata))
                => /\ k > DefaultPartitionCount
                   /\ \A j \in 1..DefaultPartitionCount :
                        Core(ops[k - DefaultPartitionCount + j - 1])
                            = ShardDrop(ops[k].name, j - 1)

\* the statement kinds the enum synchronizer emits
EnumStatementKinds ==
    {"CREATE TYPE IF NOT EXISTS", "CREATE TYPE", "DROP TYPE IF EXISTS",
     "-- Add new enum values to", "ALTER TYPE ADD VALUE IF NOT EXISTS",
     "-- Note: PostgreSQL doesn't support removing enum values from",
     "-- Removed values:"}

IsEnumStatement(o) == o.op = "ExecuteSQLOp" /\ o.kind \in EnumStatementKinds

\* C11: after process_revision_directives the enum upgrade operations are a
\* contiguous prefix of the upgrade list, ahead of every diff-engine op and
\* every shard statement; the enum downgrade operations are a contiguous
\* suffix of the downgrade list, after every diff-engine op and shard drop.
C11_EnumOpsFirstAndLast ==
    directives.state = "processed"
    => \A i \in 1..Len(directives.list) :
        /\ directives.list[i].upgrade_ops.some
           => LET ops == directives.list[i].upgrade_ops.val
                  e == RunEnumOps.upgrade_ops
              IN  /\ Len(ops) >= Len(e)
                  /\ SubSeq(ops, 1, Len(e)) = e
                  /\ \A k \in (Len(e) + 1)..Len(ops) : ~IsEnumStatement(ops[k])
        /\ directives.list[i].downgrade_ops.some
           => LET ops == directives.list[i].downgrade_ops.val
                  e == RunEnumOps.downgrade_ops
              IN  /\ Len(ops) >= Len(e)
                  /\ SubSeq(ops, Len(ops) - Len(e) + 1, Len(ops)) = e
                  /\ \A k \in 1..(Len(ops) - Len(e)) : ~IsEnumStatement(ops[k])

\* a run with enum operations, diff-engine ops and shard statements all present
C11_Witness ==
    /\ directives.state = "processed"
    /\ Len(directives.list) = 1
    /\ directives.list[1].upgrade_ops.some
    /\ directives.list[1].downgrade_ops.some
    /\ Len(RunEnumOps.upgrade_ops) >= 2
    /\ Len(RunEnumOps.downgrade_ops) >= 2
    /\ OpsToAdd(directives.engine[1].upgrade_ops.val, target_metadata) # <<>>
    /\ PartitionDrops(directives.engine[1].downgrade_ops.val, target_metadata) # <<>>
    /\ Len(directives.engine[1].upgrade_ops.val) >= 2
    /\ Len(directives.engine[1].downgrade_ops.val) >= 2

\* the sequence-number computation cannot see the revisions: the path of the
\* versions directory may not be searched, or the directory may not be listed
ComputationFails ==
    /\ versions.script_location
    /\ \/ ~versions.reachable
       \/ versions.exists /\ ~versions.readable

\* C15: if the sequence-number computation fails (e.g. the revision directory
\* exists but cannot be read), the run does not abort: the sequence number is
\* 0001 and process_revision_directives completes its remaining steps.
C15_SequenceFallback ==
    (/\ directives.state \notin {"none", "generated"}
     /\ Len(directives.engine) > 0
     /\ ComputationFails)
    => /\ directives.state = "processed"
       /\ RevIdsPrefixedWith(<<"0", "0", "0", "1">>)

\* the revision files earlier runs stored: "<sequence>_<engine id>_m.py"
StoredByRuns == {f \in versions.files : EndsWith(f, <<"_", "m">> \o DotPy)}

\* C16: over successive runs, each storing its revision file before the next
\* starts, every assigned sequence number is exactly 4 digits and greater
\* than all those assigned before (also after 9999).
C16_FourDigitsIncreasing ==
    (/\ directives.state = "processed"
     /\ Len(directives.list) > 0
     /\ VersionsReadable)
    => LET seq == SequenceOf(directives.list[1].rev_id)
       IN  /\ Len(seq) = 4
           /\ IsDigit(seq)
           /\ \A f \in StoredByRuns : ParseInt(SequenceOf(f)) < ParseInt(seq)

\* the table carries a partition annotation that is not 'STRATEGY (column)'
\* with STRATEGY one of HASH, RANGE, LIST
IllFormedAnnotation(table) ==
    /\ Truthy(PartitionByOf(table))
    /\ _parse_partition_by(PartitionByOf(table).val).exc # "none"

\* C17: a table whose partition annotation has an unknown strategy keyword or
\* does not match 'STRATEGY (column)' makes the generation run end in a
\* configuration error; the run never completes with the table skipped or
\* taken as partitioned.
C17_IllFormedAnnotationIsError ==
    (/\ directives.state \notin {"none", "generated"}
     /\ Len(directives.engine) > 0
     /\ directives.engine[1].upgrade_ops.some
     /\ \E i \in 1..Len(target_metadata) :
            /\ IllFormedAnnotation(target_metadata[i])
            /\ \E k \in 1..Len(directives.engine[1].upgrade_ops.val) :
                   directives.engine[1].upgrade_ops.val[k]
                       = CreateTableOp(target_metadata[i].name))
    => directives.state = "PartitionConfigError"

(***************************************************************************)
(* Properties of the partition manager (checked under SpecManager)         *)
(***************************************************************************)
\* the tables whose partition configuration is in error, and those with a
\* valid one, by position in the metadata
TablesInError ==
    {i \in 1..Len(target_metadata) :
        _extract_partition_config(target_metadata[i], manager_config).state
            \notin {"None", "ok"}}

TablesValid ==
    {i \in 1..Len(target_metadata) :
        _extract_partition_config(target_metadata[i], manager_config).state = "ok"}

\* C18: with validate_partition_keys true a configuration error on any table
\* makes detect_partitioned_tables raise PartitionConfigError and return no
\* mapping; with it false the table in error alone is omitted and every table
\* with a valid annotation is returned with its config.
C18_DetectionErrors ==
    analysis.state # "none"
    => /\ (manager_config.validate_partition_keys /\ TablesInError # {})
          => analysis.state = "PartitionConfigError" /\ analysis.tables = <<>>
       /\ ~manager_config.validate_partition_keys
          => /\ analysis.state = "returned"
             /\ Len(analysis.tables) = Cardinality(TablesValid)
             /\ \A i \in TablesValid :
                    \E k \in 1..Len(analysis.tables) :
                        /\ analysis.tables[k].name = target_metadata[i].name
                        /\ analysis.tables[k].cfg
                             = _extract_partition_config(target_metadata[i],
                                                         manager_config).cfg
             /\ \A i \in TablesInError :
                    \A k \in 1..Len(analysis.tables) :
                        analysis.tables[k].name # target_metadata[i].name

\* validation off, the first table in error, the second valid and returned
C18_Witness ==
    /\ analysis.state = "returned"
    /\ ~manager_config.validate_partition_keys
    /\ TablesInError = {1}
    /\ TablesValid = {2}
    /\ Len(analysis.tables) = 1
    /\ analysis.tables[1].name = Users
    /\ analysis.tables[1].cfg.strategy = HASH

\* the detected tables whose SQL generation raises
TablesFailingGeneration ==
    LET detected == analyze_metadata(target_metadata, manager_config)
    IN  IF detected.exc # "none" THEN {}
        ELSE {detected.tables[k].name :
                 k \in {j \in 1..Len(detected.tables) :
                           TableMigrationSql(detected.tables[j].cfg).exc # "none"}}

\* C19: a generation error of PartitionSQLGenerator for any table aborts the
\* run under every PartitionManagerConfig: generate_migration_sql raises it
\* and never returns a result that omits the failing table.
C19_GenerationErrorIsFatal ==
    (migration_sql.state # "none" /\ TablesFailingGeneration # {})
    => migration_sql.state = "PartitionSQLError"

(***************************************************************************)
(* Totality of the filter (checked under SpecFilter)                       *)
(***************************************************************************)
\* C20: the filter answers True or False for every descriptor, the same
\* answer for the same descriptor, and True whenever the name is absent,
\* whatever the object type.
C20_FilterTotalAndNamelessReal ==
    included # "none"
    => /\ included \in {"True", "False"}
       /\ included = "True" <=> include_object(candidate.type_, candidate.name,
                                               candidate.referred)
       /\ ~candidate.name.some => included = "True"

(***************************************************************************)
(* Foreign-key constraints in the filter (checked under SpecFilter)        *)
(***************************************************************************)
\* the constraint's own name contains the call-history convention and its
\* last character is a digit
NameSuggestsShard(name) ==
    /\ Truthy(name)
    /\ Contains(name.val, FkeyConvention)
    /\ IsDigit(<<name.val[Len(name.val)]>>)

\* C21: for a foreign-key constraint the filter answers False exactly when
\* the referenced table is named <base>_p<digits>, or the constraint's own
\* name contains 'call_history_friendly_id_fkey' and ends in a digit; every
\* other foreign-key constraint gets True.
C21_ForeignKeyFilter ==
    (candidate.type_ = "foreign_key_constraint" /\ included # "none")
    => (included = "False"
        <=> \/ candidate.referred.some /\ EndsWithPDigits(candidate.referred.val)
            \/ NameSuggestsShard(candidate.name))

\* a constraint on an ordinary table is filtered because of its own name
C21_Witness ==
    /\ candidate.type_ = "foreign_key_constraint"
    /\ candidate.referred = Some(<<"o">>)
    /\ candidate.name = Some(<<"a", "_">> \o FkeyConvention \o <<"2">>)
    /\ included = "False"

(***************************************************************************)
(* Runs side by side (checked under SpecInvocations)                       *)
(***************************************************************************)
\* invocation p has computed its revision id
Computed(p) == invocations[p].state \in {"processed", "written"}

\* the file invocation p stores or will store
FileOf(p) == RevisionFile(invocations[p].list[1])

\* p computed its number before q's revision file was in the directory
ComputedBeforeWriteOf(p, q) ==
    /\ Computed(p) /\ Computed(q)
    /\ FileOf(q) \notin invocations[p].listed

\* C22: two invocations that each compute their sequence number before the
\* other's revision file is written get the same number, and once both have
\* stored their revisions the directory holds two distinct revision files
\* with that same prefix.
C22_SameNumberSideBySide ==
    invocations # NoInvocations
    => \A p \in Invocations : \A q \in Invocations \ {p} :
           (ComputedBeforeWriteOf(p, q) /\ ComputedBeforeWriteOf(q, p))
           => /\ SequenceOf(invocations[p].list[1].rev_id)
                  = SequenceOf(invocations[q].list[1].rev_id)
              /\ (invocations[p].state = "written" /\ invocations[q].state = "written")
                  => /\ {FileOf(p), FileOf(q)} \subseteq versions.files
                     /\ FileOf(p) # FileOf(q)
                     /\ SequenceOf(FileOf(p)) = SequenceOf(FileOf(q))

\* both runs stored a revision numbered 0004 next to 0001 and 0003
C22_Witness ==
    /\ invocations # NoInvocations
    /\ \A p \in Invocations : invocations[p].state = "written"
    /\ \A p \in Invocations :
           /\ FileOf(p) \in versions.files
           /\ SequenceOf(FileOf(p)) = <<"0", "0", "0", "4">>
    /\ FileOf(1) # FileOf(2)

(***************************************************************************)
(* Shards the orchestrator injects (checked under SpecDir)                 *)
(***************************************************************************)
\* the names of the shards of table_name that the operation list creates
ShardsCreatedIn(ops, table_name) ==
    {ops[k].name : k \in {j \in 1..Len(ops) :
        /\ ops[j].op = "ExecuteSQLOp"
        /\ ops[j].kind = "CREATE TABLE"
        /\ ops[j].parent = table_name}}

\* the names of the shards of table_name that the operation list drops
ShardsDroppedIn(ops, table_name) ==
    {ops[k].name : k \in {j \in 1..Len(ops) :
        /\ ops[j].op = "ExecuteSQLOp"
        /\ ops[j].kind = "DROP TABLE IF EXISTS"
        /\ StartsWith(ops[j].name, table_name \o UnderscoreP)}}

\* the diff engine creates the table in the upgrade list and drops it in the
\* downgrade list of the first directive
CreatedAndDropped(table_name) ==
    /\ Len(directives.engine) > 0
    /\ directives.engine[1].upgrade_ops.some
    /\ directives.engine[1].downgrade_ops.some
    /\ \E k \in 1..Len(directives.engine[1].upgrade_ops.val) :
           directives.engine[1].upgrade_ops.val[k] = CreateTableOp(table_name)
    /\ \E k \in 1..Len(directives.engine[1].downgrade_ops.val) :
           directives.engine[1].downgrade_ops.val[k] = DropTableOp(table_name)

\* C23: for every partitioned table, of any strategy, whose annotation is
\* well formed, the shards the processed revision drops on downgrade are
\* exactly the shards it creates on upgrade.
C23_DroppedShardsAreCreatedShards ==
    directives.state = "processed"
    => \A i \in 1..Len(target_metadata) :
        (/\ Truthy(PartitionByOf(target_metadata[i]))
         /\ ~IllFormedAnnotation(target_metadata[i])
         /\ CreatedAndDropped(target_metadata[i].name))
        => ShardsDroppedIn(directives.list[1].downgrade_ops.val, target_metadata[i].name)
            = ShardsCreatedIn(directives.list[1].upgrade_ops.val, target_metadata[i].name)

(***************************************************************************)
(* RANGE and LIST shards (checked under SpecPart)                          *)
(***************************************************************************)
\* C24: for a valid RANGE config, generate_creation_sql returns one statement
\* per (start, end) pair of range_bounds, in order; the one at position i
\* creates the shard the naming pattern gives for i as a partition of the
\* table FROM ('<start_i>') TO ('<end_i>'); pairs that overlap or leave gaps
\* are taken as they are.
C24_RangeCreation ==
    (/\ partition_config.state = "ok"
     /\ partition_config.cfg.strategy = RANGE
     /\ creation_sql.state # "none")
    => LET c == partition_config.cfg
           st == creation_sql.statements
       IN  /\ creation_sql.state = "ok"
           /\ c.range_bounds.some
           /\ Len(st) = Len(c.range_bounds.val)
           /\ \A k \in 1..Len(st) :
                /\ st[k].verb = "CREATE TABLE"
                /\ st[k].parent = c.table_name
                /\ st[k].name = Format(c.naming_pattern, c.table_name, k - 1).s
                /\ st[k].clause = "FROM_TO"
                /\ Len(st[k].args) = 2
                /\ ParseInt(st[k].args[1]) = c.range_bounds.val[k][1]
                /\ ParseInt(st[k].args[2]) = c.range_bounds.val[k][2]

\* two shards over the same range 0..10 were generated
C24_Witness ==
    /\ partition_config.state = "ok"
    /\ partition_config.cfg.strategy = RANGE
    /\ partition_config.cfg.range_bounds = Some(<< <<0, 10>>, <<0, 10>> >>)
    /\ creation_sql.state = "ok"
    /\ Len(creation_sql.statements) = 2
    /\ creation_sql.statements[1].name # creation_sql.statements[2].name

\* C25: for a valid LIST config, creation and drop each return one statement
\* per custom_values entry, in order, for the shard the naming pattern gives
\* for the entry's position; a list or tuple entry gives one shard whose IN
\* list holds the entry's values in order, a scalar entry an IN list of that
\* one value.
C25_ListCreationAndDrop ==
    (/\ partition_config.state = "ok"
     /\ partition_config.cfg.strategy = LIST)
    => LET c == partition_config.cfg
           cr == creation_sql.statements
           dr == drop_sql.statements
       IN  /\ c.custom_values.some
           /\ creation_sql.state # "none"
              => /\ creation_sql.state = "ok"
                 /\ Len(cr) = Len(c.custom_values.val)
                 /\ \A k \in 1..Len(cr) :
                      LET entry == c.custom_values.val[k]
                      IN  /\ cr[k].verb = "CREATE TABLE"
                          /\ cr[k].parent = c.table_name
                          /\ cr[k].name = Format(c.naming_pattern, c.table_name, k - 1).s
                          /\ cr[k].clause = "IN"
                          /\ (entry.group /\ Len(entry.vals) > 0) => cr[k].args = entry.vals
                          /\ ~entry.group => cr[k].args = <<entry.vals[1]>>
           /\ drop_sql.state # "none"
              => /\ drop_sql.state = "ok"
                 /\ Len(dr) = Len(c.custom_values.val)
                 /\ \A k \in 1..Len(dr) :
                      /\ dr[k].verb = "DROP TABLE IF EXISTS"
                      /\ dr[k].name = Format(c.naming_pattern, c.table_name, k - 1).s

\* a scalar entry and a two-value entry, created and dropped
C25_Witness ==
    /\ partition_config.state = "ok"
    /\ partition_config.cfg.strategy = LIST
    /\ partition_config.cfg.custom_values
         = Some(<<[group |-> FALSE, vals |-> <<"a">>], [group |-> TRUE, vals |-> <<"b", "c">>]>>)
    /\ creation_sql.state = "ok"
    /\ drop_sql.state = "ok"
    /\ creation_sql.statements[2].args = <<"b", "c">>
    /\ Len(drop_sql.statements) = 2

(***************************************************************************)
(* Order of the ADD VALUE statements (checked under SpecEnum)              *)
(***************************************************************************)
\* C26: for each enum that gains values, the upgrade list holds exactly one
\* comment for that enum, immediately followed by the enum's ADD VALUE
\* statements in ascending order of the values, whatever order the model
\* declares them in; computing the operations again for the same model and
\* snapshot gives the same lists.
C26_AddValuesSortedAfterComment ==
    (enum_ops.state = "returned" /\ database.bind = "ok")
    => /\ \A i \in GainingEnums :
            LET d == enum_definitions[i]
                up == enum_ops.upgrade_ops
                adds == OpsAt(up, "ALTER TYPE ADD VALUE IF NOT EXISTS", d.name)
                comments == OpsAt(up, "-- Add new enum values to", d.name)
            IN  /\ Cardinality(comments) = 1
                /\ adds # {}
                /\ \A c \in comments : adds = (c + 1)..(c + Cardinality(adds))
                /\ \A k \in adds : \A l \in adds :
                       k < l => LabelRank(up[k].values[1]) < LabelRank(up[l].values[1])
       /\ generate_enum_migration_ops(enum_definitions, database).upgrade_ops
            = enum_ops.upgrade_ops
       /\ generate_enum_migration_ops(enum_definitions, database).downgrade_ops
            = enum_ops.downgrade_ops

\* the model declares C, B, A; the database has A; B is added before C
C26_Witness ==
    /\ enum_ops.state = "returned"
    /\ database.bind = "ok"
    /\ \E i \in GainingEnums :
        /\ enum_definitions[i].values = <<"C", "B", "A">>
        /\ database.existing[enum_definitions[i].name] = {"A"}
        /\ \E k \in 1..(Len(enum_ops.upgrade_ops) - 1) :
              /\ enum_ops.upgrade_ops[k].values = <<"B">>
              /\ enum_ops.upgrade_ops[k + 1].values = <<"C">>
              /\ enum_ops.upgrade_ops[k].name = enum_definitions[i].name

(***************************************************************************)
(* The diff engine's operations after splicing (checked under SpecDir)     *)
(***************************************************************************)
\* an operation the hook adds is an ExecuteSQLOp; the diff engine's are not
IsInjected(o) == o.op = "ExecuteSQLOp"

IsEngineOp(o) == ~IsInjected(o)

\* C27: in both final lists of every directive, the diff engine's operations
\* are present exactly once each, unmodified and in their original relative
\* order; everything else in the lists is an operation the hook added.
C27_EngineOpsPreserved ==
    directives.state = "processed"
    => /\ Len(directives.list) = Len(directives.engine)
       /\ \A i \in 1..Len(directives.list) :
            LET before == directives.engine[i]
                after == directives.list[i]
            IN  /\ after.upgrade_ops.some = before.upgrade_ops.some
                /\ after.downgrade_ops.some = before.downgrade_ops.some
                /\ before.upgrade_ops.some
                   => /\ SelectSeq(after.upgrade_ops.val, IsEngineOp) = before.upgrade_ops.val
                      /\ Len(after.upgrade_ops.val) >= Len(before.upgrade_ops.val)
                /\ before.downgrade_ops.some
                   => /\ SelectSeq(after.downgrade_ops.val, IsEngineOp)
                            = before.downgrade_ops.val
                      /\ Len(after.downgrade_ops.val) >= Len(before.downgrade_ops.val)

\* three engine operations on each side, with shard and enum statements
\* spliced in around them
C27_Witness ==
    /\ directives.state = "processed"
    /\ Len(directives.list) = 1
    /\ directives.engine[1].upgrade_ops
         = Some(<<CreateIndexOp(Users), CreateTableOp(Orders), CreateTableOp(Users)>>)
    /\ directives.engine[1].downgrade_ops
         = Some(<<DropTableOp(Users), DropIndexOp(Orders), DropTableOp(Orders)>>)
    /\ Len(directives.list[1].upgrade_ops.val) > 3 + Len(RunEnumOps.upgrade_ops)
    /\ Len(RunEnumOps.upgrade_ops) > 0
    /\ Len(directives.list[1].downgrade_ops.val) > 3 + Len(RunEnumOps.downgrade_ops)

(***************************************************************************)
(* Revision files without a sequence prefix (checked under SpecSeq)        *)
(***************************************************************************)
\* the .py entries of the versions directory whose name does not start "__"
RevisionFiles ==
    {f \in versions.files : EndsWith(f, DotPy) /\ ~StartsWith(f, <<"_", "_">>)}

\* C28: when the versions directory can be read and holds revision files of
\* which none has an NNNN_ prefix, the next sequence number is the number of
\* those files plus one, zero-padded to four digits, and so not 0001.
C28_LegacyCount ==
    (/\ directives.state = "processed"
     /\ Len(directives.list) > 0
     /\ VersionsReadable
     /\ RevisionFiles # {}
     /\ NumberedPrefixes = {})
    => \A i \in 1..Len(directives.list) :
        LET seq == SequenceOf(directives.list[i].rev_id)
        IN  /\ Len(seq) = 4
            /\ IsDigit(seq)
            /\ ParseInt(seq) = Cardinality(RevisionFiles) + 1
            /\ seq # <<"0", "0", "0", "1">>

\* legacy.py and old.py, nothing numbered: the run is numbered 0003
C28_Witness ==
    /\ directives.state = "processed"
    /\ Len(directives.list) > 0
    /\ VersionsReadable
    /\ NumberedPrefixes = {}
    /\ Cardinality(RevisionFiles) = 2
    /\ SequenceOf(directives.list[1].rev_id) = <<"0", "0", "0", "3">>

(***************************************************************************)
(* The record of get_table_partition_info (checked under SpecManager)      *)
(***************************************************************************)
\* C30: for a partitioned table of any strategy, the record returned by
\* get_table_partition_info is self-consistent: partition_names are exactly
\* the shard names upgrade_sql creates and downgrade_sql drops, and
\* partition_count is the length of partition_names.
C30_PartitionInfoConsistent ==
    (partition_info.state = "returned" /\ partition_info.info.some)
    => LET info == partition_info.info.val
       IN  /\ SetOf(info.partition_names) = ShardNamesOf(info.upgrade_sql)
           /\ SetOf(info.partition_names) = ShardNamesOf(info.downgrade_sql)
           /\ info.partition_count = Len(info.partition_names)

(***************************************************************************)
(* Error kinds by origin (checked under SpecManager)                       *)
(***************************************************************************)
\* detection fails: validation is on and some table's configuration is in error
DetectionFails == manager_config.validate_partition_keys /\ TablesInError # {}

\* the naming pattern has a replacement field that format() is given no value for
Unformattable(pattern) ==
    \E k \in 1..Len(pattern) :
        Len(pattern[k]) > 1 /\ pattern[k] \notin {"{table}", "{number}"}

\* the tables with a valid configuration whose naming pattern cannot be formatted
TablesUnformattable ==
    {i \in TablesValid :
        Unformattable(_extract_partition_config(target_metadata[i],
                                                manager_config).cfg.naming_pattern)}

\* what the manager's three operations ended with
ManagerOutcomes == {analysis.state, migration_sql.state, partition_info.state}

\* C29: the two error kinds are disjoint by origin. A failure of
\* generate_creation_sql or generate_drop_sql surfaces as PartitionSQLError,
\* never as PartitionConfigError or as the exception it wraps; a failure of
\* detect_partitioned_tables surfaces as PartitionConfigError, never as
\* PartitionSQLError.
C29_ErrorKindsByOrigin ==
    /\ ManagerOutcomes \subseteq
         {"none", "returned", "PartitionConfigError", "PartitionSQLError"}
    /\ analysis.state # "PartitionSQLError"
    /\ "PartitionConfigError" \in ManagerOutcomes => DetectionFails
    /\ "PartitionSQLError" \in ManagerOutcomes
         => ~DetectionFails /\ TablesUnformattable # {}
    /\ DetectionFails => ManagerOutcomes \subseteq {"none", "PartitionConfigError"}
    /\ \A i \in TablesUnformattable :
         LET cfg == _extract_partition_config(target_metadata[i], manager_config).cfg
         IN  /\ generate_creation_sql(cfg).state = "PartitionSQLError"
             /\ generate_drop_sql(cfg).state = "PartitionSQLError"
             /\ (/\ ~DetectionFails
                 /\ partition_info.state # "none"
                 /\ partition_info.table = target_metadata[i].name)
                => partition_info.state = "PartitionSQLError"

\* detection succeeded and the generation failure of a table surfaced from
\* both generate_migration_sql and get_table_partition_info
C29_Witness ==
    /\ analysis.state = "returned"
    /\ migration_sql.state = "PartitionSQLError"
    /\ partition_info.state = "PartitionSQLError"
    /\ TablesUnformattable # {}

====
